---- MODULE Spec2Model ----
(***************************************************************************)
(* Lending pool of the rwa-lending contract: interest accrual, the three   *)
(* Dutch auctions and the health factor, over exact i128 arithmetic.       *)
(*                                                                         *)
(* An i128 is a record [neg, mag]: mag is the magnitude as little-endian   *)
(* limbs in base 10^4 without leading zero limbs.  The failed result of a  *)
(* checked operation (None -> Error::ArithmeticError) is the value NaN,    *)
(* which every checked operation propagates, as the `?` operator does.     *)
(***************************************************************************)
EXTENDS Integers, Sequences, FiniteSets, TLC

\* ------------------------------------------------------------------------
\* i128 arithmetic
\* ------------------------------------------------------------------------
LimbBase == 100 * 100

RECURSIVE MagNorm(_)
MagNorm(m) ==
    IF m = <<>> THEN m
    ELSE IF m[Len(m)] = 0 THEN MagNorm(SubSeq(m, 1, Len(m) - 1))
    ELSE m

Limb(m, i) == IF i <= Len(m) THEN m[i] ELSE 0

RECURSIVE MagCmpFrom(_, _, _)
MagCmpFrom(a, b, i) ==
    IF i = 0 THEN 0
    ELSE IF a[i] # b[i] THEN (IF a[i] < b[i] THEN -1 ELSE 1)
    ELSE MagCmpFrom(a, b, i - 1)

MagCmp(a, b) ==
    IF Len(a) # Len(b) THEN (IF Len(a) < Len(b) THEN -1 ELSE 1)
    ELSE MagCmpFrom(a, b, Len(a))

RECURSIVE MagAddR(_, _, _, _)
MagAddR(a, b, i, c) ==
    IF i > Len(a) /\ i > Len(b) THEN (IF c = 0 THEN <<>> ELSE <<c>>)
    ELSE LET s == Limb(a, i) + Limb(b, i) + c
         IN  <<s % LimbBase>> \o MagAddR(a, b, i + 1, s \div LimbBase)

MagAdd(a, b) == MagAddR(a, b, 1, 0)

RECURSIVE MagSubR(_, _, _, _)
MagSubR(a, b, i, w) ==
    IF i > Len(a) THEN <<>>
    ELSE LET d == a[i] - Limb(b, i) - w
         IN  IF d < 0 THEN <<d + LimbBase>> \o MagSubR(a, b, i + 1, 1)
             ELSE <<d>> \o MagSubR(a, b, i + 1, 0)

\* a - b for a >= b
MagSub(a, b) == MagNorm(MagSubR(a, b, 1, 0))

RECURSIVE MagMulSmallR(_, _, _, _)
MagMulSmallR(a, k, i, c) ==
    IF i > Len(a)
    THEN (IF c = 0 THEN <<>>
          ELSE IF c < LimbBase THEN <<c>>
          ELSE <<c % LimbBase, c \div LimbBase>>)
    ELSE LET p == a[i] * k + c
         IN  <<p % LimbBase>> \o MagMulSmallR(a, k, i + 1, p \div LimbBase)

\* a * k for a natural k below 200000
MagMulSmall(a, k) == IF k = 0 THEN <<>> ELSE MagMulSmallR(a, k, 1, 0)

RECURSIVE MagMulR(_, _, _)
MagMulR(a, b, j) ==
    IF j > Len(b) THEN <<>>
    ELSE MagAdd(MagMulSmall(a, b[j]), <<0>> \o MagMulR(a, b, j + 1))

MagMul(a, b) == IF a = <<>> \/ b = <<>> THEN <<>> ELSE MagNorm(MagMulR(a, b, 1))

\* the largest q in lo..hi with b*q <= r
RECURSIVE QDigit(_, _, _, _)
QDigit(r, b, lo, hi) ==
    IF lo = hi THEN lo
    ELSE LET mid == (lo + hi + 1) \div 2
         IN  IF MagCmp(MagMulSmall(b, mid), r) <= 0
             THEN QDigit(r, b, mid, hi)
             ELSE QDigit(r, b, lo, mid - 1)

RECURSIVE MagDivR(_, _, _, _)
MagDivR(a, b, i, r) ==
    IF i = 0 THEN <<>>
    ELSE LET cur == MagNorm(<<a[i]>> \o r)
             q   == IF MagCmp(cur, b) < 0 THEN 0 ELSE QDigit(cur, b, 1, LimbBase - 1)
             rem == IF q = 0 THEN cur ELSE MagSub(cur, MagMulSmall(b, q))
         IN  MagDivR(a, b, i - 1, rem) \o <<q>>

RECURSIVE MagDivSmallR(_, _, _, _)
MagDivSmallR(a, k, i, r) ==
    IF i = 0 THEN <<>>
    ELSE LET cur == r * LimbBase + a[i]
         IN  MagDivSmallR(a, k, i - 1, cur % k) \o <<cur \div k>>

\* floor(a / b) for b # 0: a divisor that ends in zero limbs drops them from
\* both sides, a one-limb divisor is a short division, the rest a long one
RECURSIVE MagDiv(_, _)
MagDiv(a, b) ==
    IF a = <<>> THEN <<>>
    ELSE IF b[1] = 0 THEN MagDiv(Tail(a), Tail(b))
    ELSE IF Len(b) = 1 THEN MagNorm(MagDivSmallR(a, b[1], Len(a), 0))
    ELSE MagNorm(MagDivR(a, b, Len(a), <<>>))

RECURSIVE MagFromNat(_)
MagFromNat(n) == IF n = 0 THEN <<>> ELSE <<n % LimbBase>> \o MagFromNat(n \div LimbBase)

Zero == [neg |-> FALSE, mag |-> <<>>]
NaN  == [neg |-> TRUE, mag |-> <<>>]
IsErr(x) == x = NaN

Mk(neg, mag) == IF mag = <<>> THEN Zero ELSE [neg |-> neg, mag |-> mag]

\* the i128 of a small integer literal
I(n) == IF n < 0 THEN Mk(TRUE, MagFromNat(0 - n)) ELSE Mk(FALSE, MagFromNat(n))

Neg(x) == Mk(~x.neg, x.mag)

Add(x, y) ==
    IF x.neg = y.neg THEN Mk(x.neg, MagAdd(x.mag, y.mag))
    ELSE LET c == MagCmp(x.mag, y.mag)
         IN  IF c = 0 THEN Zero
             ELSE IF c > 0 THEN Mk(x.neg, MagSub(x.mag, y.mag))
             ELSE Mk(y.neg, MagSub(y.mag, x.mag))

Sub(x, y) == Add(x, Neg(y))

Mul(x, y) == Mk(x.neg # y.neg, MagMul(x.mag, y.mag))

\* Rust integer division truncates toward zero
Div(x, y) == Mk(x.neg # y.neg, MagDiv(x.mag, y.mag))

\* -1, 0 or 1
Cmp(x, y) ==
    IF x.neg # y.neg THEN (IF x.neg THEN -1 ELSE 1)
    ELSE IF x.neg THEN MagCmp(y.mag, x.mag) ELSE MagCmp(x.mag, y.mag)

Lt(x, y) == Cmp(x, y) < 0
Le(x, y) == Cmp(x, y) <= 0
Gt(x, y) == Cmp(x, y) > 0
Ge(x, y) == Cmp(x, y) >= 0
IsZero(x) == x = Zero
BigMin(x, y) == IF Le(x, y) THEN x ELSE y
BigMax(x, y) == IF Ge(x, y) THEN x ELSE y

\* 2^127 - 1 = 170141183460469231731687303715884105727
I128_MAX == [neg |-> FALSE,
             mag |-> <<5727, 8410, 7158, 7303, 3168, 2317, 469, 8346, 1411, 170>>]
\* -2^127
I128_MIN == [neg |-> TRUE,
             mag |-> <<5728, 8410, 7158, 7303, 3168, 2317, 469, 8346, 1411, 170>>]

InRange(x) == Le(I128_MIN, x) /\ Le(x, I128_MAX)

Checked(x) == IF InRange(x) THEN x ELSE NaN

checked_add(x, y) == IF IsErr(x) \/ IsErr(y) THEN NaN ELSE Checked(Add(x, y))
checked_sub(x, y) == IF IsErr(x) \/ IsErr(y) THEN NaN ELSE Checked(Sub(x, y))
checked_mul(x, y) == IF IsErr(x) \/ IsErr(y) THEN NaN ELSE Checked(Mul(x, y))
checked_div(x, y) ==
    IF IsErr(x) \/ IsErr(y) \/ IsZero(y) THEN NaN
    ELSE Checked(Div(x, y))

saturating_sub(x, y) ==
    LET r == Sub(x, y)
    IN  IF Gt(r, I128_MAX) THEN I128_MAX ELSE IF Lt(r, I128_MIN) THEN I128_MIN ELSE r

\* the value modulo 2^128 in the i128 range: what a wrapping build stores
TWO_128 == Mul(Add(I128_MAX, I(1)), I(2))
Wrap(x) ==
    IF Gt(x, I128_MAX) THEN Sub(x, TWO_128)
    ELSE IF Lt(x, I128_MIN) THEN Add(x, TWO_128)
    ELSE x

\* Arithmetic the code does with the plain operators (+=, -, +): where the
\* result leaves the i128 range the build either traps, which is the value
\* Overflowed here, or, with wraps, keeps the result modulo 2^128.
Overflowed == [neg |-> TRUE, mag |-> <<0>>]
IsOverflowed(x) == x = Overflowed
Unchecked(x, wraps) == IF InRange(x) THEN x ELSE IF wraps THEN Wrap(x) ELSE Overflowed
unchecked_add(x, y, wraps) ==
    IF IsOverflowed(x) \/ IsOverflowed(y) THEN Overflowed ELSE Unchecked(Add(x, y), wraps)
unchecked_sub(x, y, wraps) ==
    IF IsOverflowed(x) \/ IsOverflowed(y) THEN Overflowed ELSE Unchecked(Sub(x, y), wraps)

\* u32: 2^32, the cast `as u32` of an i128 (its low 32 bits), wrapping_add
TWO_32 == [neg |-> FALSE, mag |-> <<7296, 9496, 42>>]
Rem(x, m) == Sub(x, Mul(Div(x, m), m))
NonNegRem(r, m) == IF Lt(r, Zero) THEN Add(r, m) ELSE r
AsU32(x) == NonNegRem(Rem(x, TWO_32), TWO_32)
wrapping_add(x, y) == AsU32(Add(x, y))

\* ------------------------------------------------------------------------
\* constants of common/types.rs
\* ------------------------------------------------------------------------
SCALAR_7 == I(10000000)
SCALAR_12 == Mul(I(1000000), I(1000000))
SECONDS_PER_YEAR == 31536000
MAX_HEALTH_FACTOR == I(11500000)
AUCTION_DURATION_BLOCKS == 200
\* u32::MAX = 4294967295
U32_MAX == [neg |-> FALSE, mag |-> <<7295, 9496, 42>>]

\* ------------------------------------------------------------------------
\* Option<T>: None is the empty tuple, Some(v) the one-element tuple
\* ------------------------------------------------------------------------
None == <<>>
Some(v) == <<v>>
IsSome(o) == o # <<>>
unwrap_or(o, d) == IF o = <<>> THEN d ELSE o[1]

\* ------------------------------------------------------------------------
\* ReserveAccrual (operations/interest.rs)
\* ------------------------------------------------------------------------
ReserveData_new(timestamp) ==
    [b_rate |-> SCALAR_12, d_rate |-> SCALAR_12, ir_mod |-> SCALAR_7,
     b_supply |-> Zero, d_supply |-> Zero, backstop_credit |-> Zero,
     last_time |-> timestamp]

default_params ==
    [target_util |-> I(7500000), max_util |-> I(9500000),
     r_base |-> I(100000), r_one |-> I(500000), r_two |-> I(5000000),
     r_three |-> I(15000000), reactivity |-> I(200)]

\* Result<i128, Error> of the arithmetic helpers, as [err, val]
Ok(v) == [err |-> "Ok", val |-> v]
ArithmeticError == [err |-> "ArithmeticError", val |-> Zero]

\* lines 373-376: the ratio, capped at 100%
utilization_capped(utilization) ==
    IF IsErr(utilization) THEN ArithmeticError ELSE Ok(BigMin(utilization, SCALAR_7))

\* lines 350-376, with total_supply and total_liabilities as computed at
\* lines 345-348 and 356-359 (NaN where the checked step failed)
utilization_ratio(total_supply, total_liabilities) ==
    IF IsErr(total_supply) THEN ArithmeticError
    ELSE IF IsZero(total_supply) THEN Ok(Zero)
    ELSE IF IsErr(total_liabilities) THEN ArithmeticError
    ELSE IF Ge(total_liabilities, total_supply) THEN Ok(SCALAR_7)
    ELSE utilization_capped(checked_div(checked_mul(total_liabilities, SCALAR_7), total_supply))

\* Ok(utilization) or Err(ArithmeticError), as [err, val]
calculate_utilization_internal(reserve) ==
    IF IsZero(reserve.b_supply) THEN Ok(Zero)
    ELSE utilization_ratio(
             checked_div(checked_mul(reserve.b_supply, reserve.b_rate), SCALAR_12),
             checked_div(checked_mul(reserve.d_supply, reserve.d_rate), SCALAR_12))

\* apply_ir_mod without the multiplication: the rate of the curve as it is
apply_ir_mod_skipped(rate, ir_mod) == rate

\* lines 133-136 and 157-160: rate * ir_mod / SCALAR_7
apply_ir_mod(rate, ir_mod) == checked_div(checked_mul(rate, ir_mod), SCALAR_7)

\* lines 142-160: the segment between target_util and max_util
rate_mid_flat(params, util_diff, range, ir_mod) ==
    apply_ir_mod(checked_add(params.r_one, params.r_base), ir_mod)
rate_mid(params, util_diff, range, ir_mod) ==
    IF IsErr(util_diff) \/ IsErr(range) THEN NaN
    ELSE IF Gt(range, Zero)
    THEN apply_ir_mod(checked_add(checked_add(
             checked_div(checked_mul(util_diff, params.r_two), range),
             params.r_one), params.r_base), ir_mod)
    ELSE apply_ir_mod(checked_add(params.r_one, params.r_base), ir_mod)

\* lines 165-187: the segment above max_util; ir_mod is not applied to it
rate_high(params, util_diff, range) ==
    IF IsErr(util_diff) \/ IsErr(range) THEN NaN
    ELSE IF Gt(range, Zero)
    THEN checked_add(checked_add(checked_add(
             checked_div(checked_mul(util_diff, params.r_three), range),
             params.r_two), params.r_one), params.r_base)
    ELSE checked_add(checked_add(checked_add(params.r_three, params.r_two),
                                 params.r_one), params.r_base)

\* the annual rate of the 3-segment curve (7 decimals), NaN when a step overflows
interest_rate(params, cur_util, ir_mod) ==
    IF Le(cur_util, params.target_util)
    THEN IF Gt(params.target_util, Zero)
         THEN apply_ir_mod(checked_add(
                  checked_div(checked_mul(cur_util, params.r_one), params.target_util),
                  params.r_base), ir_mod)
         ELSE apply_ir_mod(params.r_base, ir_mod)
    ELSE IF Le(cur_util, params.max_util)
    THEN rate_mid(params, checked_sub(cur_util, params.target_util),
                  checked_sub(params.max_util, params.target_util), ir_mod)
    ELSE rate_high(params, checked_sub(cur_util, params.max_util),
                   checked_sub(SCALAR_7, params.max_util))

clamp_lower_only(x, lo, hi) == IF Lt(x, lo) THEN lo ELSE x
clamp(x, lo, hi) == IF Lt(x, lo) THEN lo ELSE IF Gt(x, hi) THEN hi ELSE x

\* lines 192-208: accrual = SCALAR_12 + delta_time * rate * SCALAR_12
\*                                     / (SECONDS_PER_YEAR * SCALAR_7)
accrual_factor(delta_time, rate) ==
    checked_add(SCALAR_12,
        checked_div(checked_mul(checked_mul(I(delta_time), rate), SCALAR_12),
                    checked_mul(I(SECONDS_PER_YEAR), SCALAR_7)))

\* lines 213-225: ir_mod + delta_time * (cur_util - target_util) * reactivity / SCALAR_7
ir_mod_raw(params, cur_util, ir_mod, delta_time) ==
    checked_add(ir_mod,
        checked_div(checked_mul(checked_mul(I(delta_time),
                                            checked_sub(cur_util, params.target_util)),
                                params.reactivity),
                    SCALAR_7))

\* lines 227-232: the pair returned, Err when a checked step above failed
accrual_result(accrual, new_ir_mod_raw) ==
    IF IsErr(accrual) \/ IsErr(new_ir_mod_raw)
    THEN [err |-> "ArithmeticError", accrual |-> Zero, new_ir_mod |-> Zero]
    ELSE [err |-> "Ok", accrual |-> accrual,
          new_ir_mod |-> clamp(new_ir_mod_raw, Div(SCALAR_7, I(10)), Mul(SCALAR_7, I(10)))]

\* Ok((accrual, new_ir_mod)) or Err(ArithmeticError), as [err, accrual, new_ir_mod]
calc_accrual(params, cur_util, ir_mod, last_time, current_time) ==
    IF current_time <= last_time
    THEN [err |-> "Ok", accrual |-> SCALAR_12, new_ir_mod |-> ir_mod]
    ELSE accrual_result(
             accrual_factor(current_time - last_time, interest_rate(params, cur_util, ir_mod)),
             ir_mod_raw(params, cur_util, ir_mod, current_time - last_time))

\* lines 249-253: new_d_rate = old_d_rate * accrual / SCALAR_12
scale_d_rate_inverse(old_d_rate, accrual) ==
    checked_div(checked_mul(old_d_rate, SCALAR_12), accrual)
scale_d_rate(old_d_rate, accrual) ==
    checked_div(checked_mul(old_d_rate, accrual), SCALAR_12)

\* Result<(), Error> of apply_accrual with the caller's reserve as the call
\* left it, as [err, reserve]
Applied(err, reserve) == [err |-> err, reserve |-> reserve]

\* lines 259-274: d_supply * (new_d_rate - old_d_rate) / SCALAR_12
\*                * backstop_take_rate / SCALAR_7
backstop_share(reserve, old_d_rate, backstop_take_rate) ==
    checked_div(checked_mul(
        checked_div(checked_mul(reserve.d_supply,
                                checked_sub(reserve.d_rate, old_d_rate)), SCALAR_12),
        backstop_take_rate), SCALAR_7)

\* lines 287-309: the factor applied to b_rate
lender_accrual(backstop_take_rate, accrual) ==
    IF Gt(backstop_take_rate, Zero)
    THEN checked_add(SCALAR_12,
             checked_div(checked_mul(checked_sub(accrual, SCALAR_12),
                                     checked_sub(SCALAR_7, backstop_take_rate)),
                         SCALAR_7))
    ELSE accrual

\* lines 311-323
apply_b_rate(reserve, new_b_rate, new_ir_mod, current_time) ==
    IF IsErr(new_b_rate) THEN Applied("ArithmeticError", reserve)
    ELSE Applied("Ok", [reserve EXCEPT !.b_rate = new_b_rate, !.ir_mod = new_ir_mod,
                                       !.last_time = current_time])

\* lines 281-323
apply_lenders(reserve, backstop_take_rate, accrual, new_ir_mod, current_time) ==
    IF Gt(reserve.b_supply, Zero)
    THEN apply_b_rate(reserve,
             checked_div(checked_mul(reserve.b_rate,
                                     lender_accrual(backstop_take_rate, accrual)), SCALAR_12),
             new_ir_mod, current_time)
    ELSE Applied("Ok", [reserve EXCEPT !.ir_mod = new_ir_mod, !.last_time = current_time])

\* line 276: reserve.backstop_credit += backstop_credit is not a checked
\* operation: where the sum leaves the i128 range the build either traps
\* ("Panic") or, with wraps, stores the sum modulo 2^128
add_backstop_credit(reserve, backstop_take_rate, accrual, new_ir_mod, current_time, wraps, credit_sum) ==
    IF ~InRange(credit_sum) /\ ~wraps THEN Applied("Panic", reserve)
    ELSE apply_lenders([reserve EXCEPT !.backstop_credit = Wrap(credit_sum)],
                       backstop_take_rate, accrual, new_ir_mod, current_time)

\* lines 257-277
apply_backstop(reserve, backstop_take_rate, accrual, new_ir_mod, current_time, wraps, backstop_credit) ==
    IF IsErr(backstop_credit) THEN Applied("ArithmeticError", reserve)
    ELSE add_backstop_credit(reserve, backstop_take_rate, accrual, new_ir_mod,
                             current_time, wraps,
                             Add(reserve.backstop_credit, backstop_credit))

\* lines 246-323, after d_rate was computed
apply_d_rate(reserve, backstop_take_rate, accrual, new_ir_mod, current_time, wraps, new_d_rate) ==
    IF IsErr(new_d_rate) THEN Applied("ArithmeticError", reserve)
    ELSE IF Gt(backstop_take_rate, Zero) /\ Gt(reserve.d_supply, Zero)
    THEN apply_backstop([reserve EXCEPT !.d_rate = new_d_rate], backstop_take_rate,
                        accrual, new_ir_mod, current_time, wraps,
                        backstop_share([reserve EXCEPT !.d_rate = new_d_rate],
                                       reserve.d_rate, backstop_take_rate))
    ELSE apply_lenders([reserve EXCEPT !.d_rate = new_d_rate], backstop_take_rate,
                       accrual, new_ir_mod, current_time)

\* The reserve as apply_accrual leaves it, as [err, reserve].  On Err the
\* reserve is the caller's local copy with the fields assigned before the
\* failing step.
apply_accrual(reserve, backstop_take_rate, accrual, new_ir_mod, current_time, wraps) ==
    apply_d_rate(reserve, backstop_take_rate, accrual, new_ir_mod, current_time,
                 wraps, scale_d_rate(reserve.d_rate, accrual))

\* ------------------------------------------------------------------------
\* State
\* ------------------------------------------------------------------------
Assets == {"USDC"}
RwaTokens == {"NVDA"}
Borrowers == {"alice", "bob", "carol", "dave"}
\* token contracts: the debt asset's token, the RWA token, the backstop token
\* other_token: a token contract the admin may point an asset or the backstop to
TokenContracts == {"usdc_token", "NVDA", "backstop_token", "other_token"}
\* holders of token balances: the lending contract and the account that fills
Holders == {"pool", "filler"}

VARIABLES
    storage,    \* the PoolStorage document of instance storage
    cdps,       \* persistent storage: borrower -> Option<CDP>
    balances,   \* the token contracts' ledgers: token -> holder -> amount
    ledger,     \* [timestamp, sequence] of the host ledger, with the number
                \* of ledgers closed and of admin calls made so far
    oracle,     \* last prices of the two SEP-40 oracles
    last        \* the last call: operation, arguments, result, the state
                \* before it (pre) and the state as the contract code had
                \* written it when it returned (written)

vars == <<storage, cdps, balances, ledger, oracle, last>>

\* ---- bounds of the exploration ----
MaxLedgers == 1
MaxAdminCalls == 1
MaxCalls == 2


\* ------------------------------------------------------------------------
\* Host: a call that returns Err or traps is rolled back as a whole
\* ------------------------------------------------------------------------
Failed(res) == res.err # "Ok"

\* the persisted state a call works on: [storage, cdps, balances]
World == [storage |-> storage, cdps |-> cdps, balances |-> balances]

HostCommit(res, op, args) ==
    /\ storage' = IF Failed(res) THEN storage ELSE res.world.storage
    /\ cdps' = IF Failed(res) THEN cdps ELSE res.world.cdps
    /\ balances' = IF Failed(res) THEN balances ELSE res.world.balances
    /\ last' = [op |-> op, args |-> args, err |-> res.err, pre |-> World,
                written |-> res.world, ret |-> res.ret]

\* ------------------------------------------------------------------------
\* Interest::accrue_interest
\* ------------------------------------------------------------------------
\* line 31: no time has passed since the reserve's last accrual
no_time_passed_lt(current_time, reserve) == current_time < reserve.last_time
no_time_passed(current_time, reserve) == current_time <= reserve.last_time

\* lines 36-41 and 53-58: only last_time is set and the reserve is saved
touch_reserve_keep(st, asset, reserve, current_time) ==
    [st EXCEPT !.reserve_data[asset] = Some(reserve)]
touch_reserve(st, asset, reserve, current_time) ==
    [st EXCEPT !.reserve_data[asset] = Some([reserve EXCEPT !.last_time = current_time])]

\* lines 70-82: the reserve is saved only after apply_accrual returned Ok
save_accrual_always(st, asset, app) ==
    [err |-> app.err, storage |-> [st EXCEPT !.reserve_data[asset] = Some(app.reserve)]]
save_accrual(st, asset, app) ==
    IF app.err # "Ok" THEN [err |-> app.err, storage |-> st]
    ELSE [err |-> "Ok", storage |-> [st EXCEPT !.reserve_data[asset] = Some(app.reserve)]]

\* lines 61-82, with the pair calc_accrual returned
accrue_apply(st, asset, reserve, acc, current_time, wraps) ==
    IF acc.err # "Ok" THEN [err |-> acc.err, storage |-> st]
    ELSE save_accrual(st, asset,
             apply_accrual(reserve, st.backstop_take_rate, acc.accrual, acc.new_ir_mod,
                           current_time, wraps))

\* lines 50-82, with the utilization calculate_utilization_internal returned
accrue_utilized(st, asset, reserve, params, utilization, current_time, wraps) ==
    IF utilization.err # "Ok" THEN [err |-> utilization.err, storage |-> st]
    ELSE IF IsZero(utilization.val)
    THEN [err |-> "Ok", storage |-> touch_reserve(st, asset, reserve, current_time)]
    ELSE accrue_apply(st, asset, reserve,
             calc_accrual(params, utilization.val, reserve.ir_mod, reserve.last_time,
                          current_time),
             current_time, wraps)

\* lines 31-82, with the reserve loaded at lines 25-28
accrue_reserve(st, asset, reserve, current_time, wraps) ==
    IF no_time_passed(current_time, reserve) THEN [err |-> "Ok", storage |-> st]
    ELSE IF IsZero(reserve.b_supply)
    THEN [err |-> "Ok", storage |-> touch_reserve(st, asset, reserve, current_time)]
    ELSE accrue_utilized(st, asset, reserve,
             unwrap_or(st.interest_rate_params[asset], default_params),
             calculate_utilization_internal(reserve), current_time, wraps)

\* what the handler returns and what it has written on return
accrue_interest(st, asset, current_time, wraps) ==
    accrue_reserve(st, asset,
        unwrap_or(st.reserve_data[asset], ReserveData_new(current_time)),
        current_time, wraps)

\* the result of a call that works on instance storage only
InstanceResult(r, w) ==
    [err |-> r.err, world |-> [w EXCEPT !.storage = r.storage], ret |-> Zero]

AccrueInterest(asset) ==
    \E wraps \in BOOLEAN :
        /\ HostCommit(InstanceResult(accrue_interest(storage, asset, ledger.timestamp, wraps),
                                     World),
                      "accrue_interest", [asset |-> asset])
        /\ UNCHANGED <<ledger, oracle>>

\* ------------------------------------------------------------------------
\* Admin (admin/mod.rs)
\* ------------------------------------------------------------------------
\* the PoolStorage written by Admin::initialize
initialize(backstop_take_rate) ==
    [pool_balances |-> [a \in Assets |-> Zero],
     reserve_data |-> [a \in Assets |-> None],
     d_token_balances |-> [b \in Borrowers |-> [a \in Assets |-> Zero]],
     collateral |-> [b \in Borrowers |-> [t \in RwaTokens |-> Zero]],
     interest_rate_params |-> [a \in Assets |-> None],
     auction_data |-> <<>>,
     backstop_total |-> Zero,
     backstop_take_rate |-> backstop_take_rate,
     backstop_token |-> None,
     collateral_factors |-> [t \in RwaTokens |-> None],
     token_contracts |-> [a \in Assets |-> None]]

set_backstop_take_rate(st, take_rate) ==
    IF Gt(take_rate, SCALAR_7)
    THEN [err |-> "InvalidInterestRateParams", storage |-> st]
    ELSE [err |-> "Ok", storage |-> [st EXCEPT !.backstop_take_rate = take_rate]]

set_interest_rate_params(st, asset, params) ==
    IF Gt(params.target_util, I(9500000))
    THEN [err |-> "InvalidInterestRateParams", storage |-> st]
    ELSE IF Le(params.max_util, params.target_util) \/ Gt(params.max_util, SCALAR_7)
    THEN [err |-> "InvalidInterestRateParams", storage |-> st]
    ELSE [err |-> "Ok", storage |-> [st EXCEPT !.interest_rate_params[asset] = Some(params)]]

\* lines 79-90
set_collateral_factor(st, rwa_token, factor) ==
    IF Gt(factor, SCALAR_7)
    THEN [err |-> "InvalidCollateralFactor", storage |-> st]
    ELSE [err |-> "Ok", storage |-> [st EXCEPT !.collateral_factors[rwa_token] = Some(factor)]]

\* lines 164-167 and Storage::set_token_contract (storage.rs 293-299)
set_token_contract(st, asset, token_address) ==
    [err |-> "Ok", storage |-> [st EXCEPT !.token_contracts[asset] = Some(token_address)]]

\* lines 170-175
set_backstop_token(st, token_address) ==
    [err |-> "Ok", storage |-> [st EXCEPT !.backstop_token = Some(token_address)]]

\* u32 arguments the admin passes
TakeRates == {Zero, I(500000), SCALAR_7, I(20000000)}
\* u32 arguments initialize was called with
InitTakeRates == {I(500000), I(20000000)}

ExtremeParams ==
    [target_util |-> I(5000000), max_util |-> I(9000000),
     r_base |-> U32_MAX, r_one |-> U32_MAX, r_two |-> U32_MAX,
     r_three |-> U32_MAX, reactivity |-> U32_MAX]
FlatParams ==
    [target_util |-> Zero, max_util |-> SCALAR_7,
     r_base |-> Zero, r_one |-> Zero, r_two |-> Zero,
     r_three |-> Zero, reactivity |-> Zero]
BadParams == [default_params EXCEPT !.max_util = I(7500000)]
ParamChoices == {default_params, ExtremeParams, FlatParams, BadParams}

SetBackstopTakeRate ==
    \E take_rate \in TakeRates :
        /\ ledger.admin_calls < MaxAdminCalls
        /\ HostCommit(InstanceResult(set_backstop_take_rate(storage, take_rate), World),
                      "set_backstop_take_rate", [take_rate |-> take_rate])
        /\ ledger' = [ledger EXCEPT !.admin_calls = @ + 1]
        /\ UNCHANGED oracle

SetInterestRateParams ==
    \E asset \in Assets, params \in ParamChoices :
        /\ ledger.admin_calls < MaxAdminCalls
        /\ HostCommit(InstanceResult(set_interest_rate_params(storage, asset, params), World),
                      "set_interest_rate_params", [asset |-> asset, params |-> params])
        /\ ledger' = [ledger EXCEPT !.admin_calls = @ + 1]
        /\ UNCHANGED oracle

\* ------------------------------------------------------------------------
\* Storage accessors (common/storage.rs); st is the PoolStorage document
\* ------------------------------------------------------------------------
get_reserve_data(st, asset, now) ==
    IF asset \in DOMAIN st.reserve_data
    THEN unwrap_or(st.reserve_data[asset], ReserveData_new(now))
    ELSE ReserveData_new(now)
set_reserve_data(st, asset, data) == [st EXCEPT !.reserve_data[asset] = Some(data)]
get_d_token_rate(st, asset, now) == get_reserve_data(st, asset, now).d_rate
get_collateral(st, borrower, rwa_token) == st.collateral[borrower][rwa_token]
set_collateral(st, borrower, rwa_token, amount) ==
    [st EXCEPT !.collateral[borrower][rwa_token] = amount]
get_d_token_balance(st, borrower, asset) == st.d_token_balances[borrower][asset]
set_d_token_balance(st, borrower, asset, amount) ==
    [st EXCEPT !.d_token_balances[borrower][asset] = amount]
get_pool_balance(st, asset) == st.pool_balances[asset]
set_pool_balance(st, asset, amount) == [st EXCEPT !.pool_balances[asset] = amount]
get_token_contract(st, asset) == st.token_contracts[asset]
get_collateral_factor(st, rwa_token) == unwrap_or(st.collateral_factors[rwa_token], I(7500000))

\* Collateral::get_all_collateral: the borrower's entry of the collateral map
\* that Storage::get_collateral and Storage::set_collateral work on
get_all_collateral(st, borrower) == st.collateral[borrower]

\* maps with keys that come and go: Map::set, Map::remove, Map::get
MapSet(map, k, v) == [x \in DOMAIN map \cup {k} |-> IF x = k THEN v ELSE map[x]]
MapRemove(map, k) == [x \in DOMAIN map \ {k} |-> map[x]]
MapGet(map, k) == IF k \in DOMAIN map THEN Some(map[k]) ELSE None
EmptyMap == <<>>
\* Map::keys().get(0); the auction maps of this contract hold at most one key
FirstKey(map) == CHOOSE k \in DOMAIN map : TRUE

\* ------------------------------------------------------------------------
\* The environment of a call: ledger time, ledger sequence, oracle prices
\* ------------------------------------------------------------------------
Env == [timestamp |-> ledger.timestamp, sequence |-> ledger.sequence, oracle |-> oracle]

\* Result<i128, Error> with an error of any kind
Err(e) == [err |-> e, val |-> Zero]
ok_or(x) == IF IsErr(x) THEN ArithmeticError ELSE Ok(x)

\* ------------------------------------------------------------------------
\* Oracles (operations/oracles.rs)
\* ------------------------------------------------------------------------
\* lines 27-48 and 66-87: the last price, validated
\* validated_price without the age test of lines 36-39: an old price is used
validated_price_any_age(lastprice, current_time) ==
    IF lastprice = None THEN Err("OraclePriceFetchFailed")
    ELSE IF Le(lastprice[1].price, Zero) THEN Err("InvalidOraclePrice")
    ELSE Ok(lastprice[1].price)

validated_price(lastprice, current_time) ==
    IF lastprice = None THEN Err("OraclePriceFetchFailed")
    ELSE IF Le(lastprice[1].price, Zero) THEN Err("InvalidOraclePrice")
    ELSE IF lastprice[1].timestamp + 24 * 60 * 60 < current_time THEN Err("InvalidOraclePrice")
    ELSE Ok(lastprice[1].price)

get_rwa_price(env, rwa_token) == validated_price(env.oracle.rwa[rwa_token], env.timestamp)
get_crypto_price(env, asset) == validated_price(env.oracle.crypto[asset], env.timestamp)

\* 10i128.pow(price_decimals), price_decimals = 7 at every call site
PriceScale == I(10000000)

\* amount * price / 10^7, NaN when the product overflows
calculate_usd_value(amount, price) ==
    IF IsErr(checked_mul(amount, price)) THEN NaN ELSE Div(checked_mul(amount, price), PriceScale)

\* ------------------------------------------------------------------------
\* Liquidations::calculate_health_factor
\* ------------------------------------------------------------------------
\* RWA tokens in the order Map::keys() yields them
RwaTokenOrder == <<"NVDA">>

\* lines 304-328: one priced collateral added to the total
add_factored_value(st, rwa_token, collateral_amount, rwa_price, total) ==
    IF rwa_price.err # "Ok" THEN rwa_price
    ELSE ok_or(checked_add(total,
             checked_div(checked_mul(calculate_usd_value(collateral_amount, rwa_price.val),
                                     get_collateral_factor(st, rwa_token)),
                         SCALAR_7)))

\* lines 298-329: one turn of the loop
add_collateral_value(st, env, all_collateral, rwa_token, total) ==
    IF IsZero(all_collateral[rwa_token]) THEN Ok(total)
    ELSE add_factored_value(st, rwa_token, all_collateral[rwa_token],
                            get_rwa_price(env, rwa_token), total)

\* lines 294-329: the loop from the i-th key on, total as [err, val]
RECURSIVE sum_collateral_value(_, _, _, _, _)
sum_collateral_value(st, env, all_collateral, i, total) ==
    IF total.err # "Ok" \/ i > Len(RwaTokenOrder) THEN total
    ELSE sum_collateral_value(st, env, all_collateral, i + 1,
             add_collateral_value(st, env, all_collateral, RwaTokenOrder[i], total.val))

\* lines 341-352
priced_debt_value(debt_amount, debt_price) ==
    IF IsErr(debt_amount) THEN ArithmeticError
    ELSE IF debt_price.err # "Ok" THEN debt_price
    ELSE ok_or(calculate_usd_value(debt_amount, debt_price.val))

\* lines 332-358
total_debt_value(st, env, cdp) ==
    IF IsSome(cdp.debt_asset) /\ Gt(cdp.d_tokens, Zero)
    THEN priced_debt_value(
             checked_div(checked_mul(cdp.d_tokens,
                                     get_d_token_rate(st, cdp.debt_asset[1], env.timestamp)),
                         SCALAR_12),
             get_crypto_price(env, cdp.debt_asset[1]))
    ELSE Ok(Zero)

\* line 374: health_factor.min(u32::MAX as i128) as u32
cap_u32(health_factor) ==
    IF IsErr(health_factor) THEN ArithmeticError
    ELSE Ok(AsU32(BigMin(health_factor, U32_MAX)))

\* lines 360-374
health_ratio(total_collateral_value, debt_value) ==
    IF debt_value.err # "Ok" THEN debt_value
    ELSE IF IsZero(debt_value.val) THEN Ok(U32_MAX)
    ELSE cap_u32(checked_div(checked_mul(total_collateral_value, SCALAR_7), debt_value.val))

\* lines 331-374
health_of_collateral(st, env, cdp, total_collateral_value) ==
    IF total_collateral_value.err # "Ok" THEN total_collateral_value
    ELSE health_ratio(total_collateral_value.val, total_debt_value(st, env, cdp))

\* Ok(health factor as u32) or Err, as [err, val]; w is the persisted state
\* as the call has written it so far
calculate_health_factor(w, env, borrower) ==
    IF w.cdps[borrower] = None THEN Err("CDPNotInsolvent")
    ELSE health_of_collateral(w.storage, env, w.cdps[borrower][1],
             sum_collateral_value(w.storage, env, get_all_collateral(w.storage, borrower),
                                  1, Ok(Zero)))

\* ------------------------------------------------------------------------
\* Calls: what a handler returns, with the persisted state as the handler
\* had written it when it returned: [err, world, ret]
\* ------------------------------------------------------------------------
Fail(e, w) == [err |-> e, world |-> w, ret |-> Zero]
Done(w, ret) == [err |-> "Ok", world |-> w, ret |-> ret]

\* TokenClient::transfer of a SEP-41 token: traps when the amount is negative
\* or exceeds the sender's balance
can_transfer(bal, token, from, to, amount) ==
    /\ Ge(amount, Zero)
    /\ Ge(bal[token][from], amount)
    /\ InRange(Add(bal[token][to], amount))
transfer(bal, token, from, to, amount) ==
    [bal EXCEPT ![token][from] = Sub(@, amount), ![token][to] = Add(@, amount)]

\* ------------------------------------------------------------------------
\* Liquidations::initiate_liquidation; a is the record of its arguments
\* ------------------------------------------------------------------------
\* line 406
Liquidations_generate_auction_id(env) ==
    wrapping_add(wrapping_add(I(env.sequence), AsU32(I(env.timestamp))), I(2000))

\* lines 48-52: d_tokens * d_rate / SCALAR_12
debt_amount_of(d_tokens, d_token_rate) ==
    checked_div(checked_mul(d_tokens, d_token_rate), SCALAR_12)

\* lines 55-59
liquidation_debt_of(debt_amount, liquidation_percent) ==
    checked_div(checked_mul(debt_amount, liquidation_percent), SCALAR_7)

\* lines 63-80: (SCALAR_7 - avg_cf * avg_lf / SCALAR_7) / 2 + SCALAR_7
premium_of(collateral_factor) ==
    checked_add(
        checked_div(checked_sub(SCALAR_7,
                                checked_div(checked_mul(collateral_factor, SCALAR_7), SCALAR_7)),
                    I(2)),
        SCALAR_7)

\* capped_collateral without the cap of line 115
capped_collateral_uncapped(collateral_amount, collateral_percent) ==
    IF IsErr(collateral_percent) THEN NaN
    ELSE checked_div(checked_mul(collateral_amount, collateral_percent), SCALAR_7)

\* lines 115-122
capped_collateral(collateral_amount, collateral_percent) ==
    IF IsErr(collateral_percent) THEN NaN
    ELSE checked_div(checked_mul(collateral_amount, BigMin(collateral_percent, SCALAR_7)),
                     SCALAR_7)

\* lines 104-122
liquidation_collateral_of(collateral_amount, premium, liquidation_percent, debt_value, collateral_value) ==
    capped_collateral(collateral_amount,
        checked_div(checked_div(checked_mul(checked_mul(premium, liquidation_percent),
                                            debt_value),
                                collateral_value),
                    SCALAR_7))

UserLiquidation(a, debt_token_address, liquidation_debt, liquidation_collateral, block) ==
    [auction_type |-> "UserLiquidation", user |-> a.borrower,
     bid |-> MapSet(EmptyMap, debt_token_address, liquidation_debt),
     lot |-> MapSet(EmptyMap, a.rwa_token, liquidation_collateral),
     block |-> block]

\* store_liquidation with an auction_data.set that keeps the auction already
\* stored under the id
store_liquidation_first_wins(w, env, a, liquidation_debt, liquidation_collateral) ==
    IF IsErr(liquidation_collateral) THEN Fail("ArithmeticError", w)
    ELSE IF get_token_contract(w.storage, a.debt_asset) = None
    THEN Fail("TokenContractNotSet", w)
    ELSE IF Liquidations_generate_auction_id(env) \in DOMAIN w.storage.auction_data
    THEN Done(w, Liquidations_generate_auction_id(env))
    ELSE Done([w EXCEPT !.storage.auction_data =
                   MapSet(@, Liquidations_generate_auction_id(env),
                          UserLiquidation(a, get_token_contract(w.storage, a.debt_asset)[1],
                                          liquidation_debt, liquidation_collateral,
                                          env.sequence))],
              Liquidations_generate_auction_id(env))

\* lines 118-164
store_liquidation(w, env, a, liquidation_debt, liquidation_collateral) ==
    IF IsErr(liquidation_collateral) THEN Fail("ArithmeticError", w)
    ELSE IF get_token_contract(w.storage, a.debt_asset) = None
    THEN Fail("TokenContractNotSet", w)
    ELSE Done([w EXCEPT !.storage.auction_data =
                   MapSet(@, Liquidations_generate_auction_id(env),
                          UserLiquidation(a, get_token_contract(w.storage, a.debt_asset)[1],
                                          liquidation_debt, liquidation_collateral,
                                          env.sequence))],
              Liquidations_generate_auction_id(env))

\* lines 94-122
size_collateral(w, env, a, collateral_amount, debt_amount, collateral_value, debt_price) ==
    IF debt_price.err # "Ok" THEN Fail(debt_price.err, w)
    ELSE store_liquidation(w, env, a,
             liquidation_debt_of(debt_amount, a.liquidation_percent),
             liquidation_collateral_of(collateral_amount,
                 premium_of(get_collateral_factor(w.storage, a.rwa_token)),
                 a.liquidation_percent,
                 calculate_usd_value(debt_amount, debt_price.val),
                 collateral_value))

\* lines 83-91
value_collateral(w, env, a, collateral_amount, debt_amount, rwa_price) ==
    IF rwa_price.err # "Ok" THEN Fail(rwa_price.err, w)
    ELSE IF IsErr(calculate_usd_value(collateral_amount, rwa_price.val))
    THEN Fail("ArithmeticError", w)
    ELSE size_collateral(w, env, a, collateral_amount, debt_amount,
                         calculate_usd_value(collateral_amount, rwa_price.val),
                         get_crypto_price(env, a.debt_asset))

\* lines 48-80
size_debt(w, env, a, collateral_amount, debt_amount) ==
    IF \/ IsErr(liquidation_debt_of(debt_amount, a.liquidation_percent))
       \/ IsErr(premium_of(get_collateral_factor(w.storage, a.rwa_token)))
    THEN Fail("ArithmeticError", w)
    ELSE value_collateral(w, env, a, collateral_amount, debt_amount,
                          get_rwa_price(env, a.rwa_token))

\* lines 32-52, without the test of the health factor at line 36
check_insolvent_any_health(w, env, a, cdp, health_factor) ==
    IF health_factor.err # "Ok" THEN Fail(health_factor.err, w)
    ELSE IF IsZero(get_collateral(w.storage, a.borrower, a.rwa_token))
    THEN Fail("InsufficientCollateral", w)
    ELSE size_debt(w, env, a, get_collateral(w.storage, a.borrower, a.rwa_token),
                   debt_amount_of(cdp.d_tokens,
                                  get_d_token_rate(w.storage, a.debt_asset, env.timestamp)))
\* lines 32-52
check_insolvent(w, env, a, cdp, health_factor) ==
    IF health_factor.err # "Ok" THEN Fail(health_factor.err, w)
    ELSE IF Ge(health_factor.val, SCALAR_7) THEN Fail("CDPNotInsolvent", w)
    ELSE IF IsZero(get_collateral(w.storage, a.borrower, a.rwa_token))
    THEN Fail("InsufficientCollateral", w)
    ELSE size_debt(w, env, a, get_collateral(w.storage, a.borrower, a.rwa_token),
                   debt_amount_of(cdp.d_tokens,
                                  get_d_token_rate(w.storage, a.debt_asset, env.timestamp)))

initiate_liquidation(w, env, a) ==
    IF w.cdps[a.borrower] = None THEN Fail("CDPNotInsolvent", w)
    ELSE IF w.cdps[a.borrower][1].debt_asset # Some(a.debt_asset)
    THEN Fail("CDPNotInsolvent", w)
    ELSE check_insolvent(w, env, a, w.cdps[a.borrower][1],
                         calculate_health_factor(w, env, a.borrower))

\* ------------------------------------------------------------------------
\* Liquidations::fill_auction
\* ------------------------------------------------------------------------
\* lines 379-399, without the .max(0) of line 395
calculate_auction_modifiers_unclamped(blocks_elapsed) ==
    [lot |-> IF blocks_elapsed <= AUCTION_DURATION_BLOCKS
             THEN Div(Mul(I(blocks_elapsed), SCALAR_12), I(AUCTION_DURATION_BLOCKS))
             ELSE SCALAR_12,
     bid |-> IF blocks_elapsed <= AUCTION_DURATION_BLOCKS
             THEN SCALAR_12
             ELSE Sub(SCALAR_12,
                      Div(Mul(I(blocks_elapsed - AUCTION_DURATION_BLOCKS), SCALAR_12),
                          I(AUCTION_DURATION_BLOCKS)))]
\* lines 379-399, with a bid that stays at 1.0 after the first window
calculate_auction_modifiers_no_decay(blocks_elapsed) ==
    [lot |-> IF blocks_elapsed <= AUCTION_DURATION_BLOCKS
             THEN Div(Mul(I(blocks_elapsed), SCALAR_12), I(AUCTION_DURATION_BLOCKS))
             ELSE SCALAR_12,
     bid |-> SCALAR_12]
\* lines 379-399, as [lot, bid]
calculate_auction_modifiers(blocks_elapsed) ==
    [lot |-> IF blocks_elapsed <= AUCTION_DURATION_BLOCKS
             THEN Div(Mul(I(blocks_elapsed), SCALAR_12), I(AUCTION_DURATION_BLOCKS))
             ELSE SCALAR_12,
     bid |-> IF blocks_elapsed <= AUCTION_DURATION_BLOCKS
             THEN SCALAR_12
             ELSE BigMax(Sub(SCALAR_12,
                             Div(Mul(I(blocks_elapsed - AUCTION_DURATION_BLOCKS), SCALAR_12),
                                 I(AUCTION_DURATION_BLOCKS))),
                         Zero)]

\* lines 207-217: amount * modifier / SCALAR_12
modified(amount, modifier) == checked_div(checked_mul(amount, modifier), SCALAR_12)

\* lines 237-241: debt_to_pay * SCALAR_12 / d_token_rate
d_tokens_to_burn_of(debt, d_token_rate) ==
    checked_div(checked_mul(debt, SCALAR_12), d_token_rate)

\* lines 243-247 (and bad_debt.rs 169-173): the CDP after the burn
burned_cdp(cdp, d_tokens, now) ==
    [cdp EXCEPT !.d_tokens = d_tokens,
                !.debt_asset = IF IsZero(d_tokens) THEN None ELSE @,
                !.last_update = now]

\* lines 269-270: the PoolStorage loaded at line 175 is stored, without the auction
\* remove_auction without the removal of line 266: a filled auction stays stored
remove_auction_kept(stale, auction_id) == stale

remove_auction(stale, auction_id) ==
    [stale EXCEPT !.auction_data = MapRemove(@, auction_id)]

\* lines 262-281 without the comparison with MAX_HEALTH_FACTOR of line 264
check_post_liquidation_any_health(w, stale, auction_id, post_liq_health_factor) ==
    IF post_liq_health_factor.err # "Ok" THEN Fail(post_liq_health_factor.err, w)
    ELSE Done([w EXCEPT !.storage = remove_auction(stale, auction_id)], Zero)

\* lines 262-281; stale is the PoolStorage loaded at line 175, w the state
\* after the writes of lines 248-260
check_post_liquidation(w, stale, auction_id, post_liq_health_factor) ==
    IF post_liq_health_factor.err # "Ok" THEN Fail(post_liq_health_factor.err, w)
    ELSE IF Gt(post_liq_health_factor.val, MAX_HEALTH_FACTOR)
    THEN Fail("HealthFactorTooHigh", w)
    ELSE Done([w EXCEPT !.storage = remove_auction(stale, auction_id)], Zero)

\* lines 258-263
write_pool_balance(w, env, stale, auction_id, borrower, debt_asset, pool_balance) ==
    IF IsOverflowed(pool_balance) THEN Fail("Panic", w)
    ELSE check_post_liquidation(
             [w EXCEPT !.storage = set_pool_balance(@, debt_asset, pool_balance)],
             stale, auction_id,
             calculate_health_factor(
                 [w EXCEPT !.storage = set_pool_balance(@, debt_asset, pool_balance)],
                 env, borrower))

\* lines 254-260
write_d_token_balance(w, env, stale, auction_id, borrower, debt_asset, debt_to_pay, d_token_balance, wraps) ==
    IF IsOverflowed(d_token_balance) THEN Fail("Panic", w)
    ELSE write_pool_balance(
             [w EXCEPT !.storage = set_d_token_balance(@, borrower, debt_asset, d_token_balance)],
             env, stale, auction_id, borrower, debt_asset,
             unchecked_add(get_pool_balance(w.storage, debt_asset), debt_to_pay, wraps))

\* lines 250-256
write_collateral(w, env, stale, auction_id, borrower, rwa_token, debt_asset, debt_to_pay, d_tokens_to_burn, collateral, wraps) ==
    IF IsOverflowed(collateral) THEN Fail("Panic", w)
    ELSE write_d_token_balance(
             [w EXCEPT !.storage = set_collateral(@, borrower, rwa_token, collateral)],
             env, stale, auction_id, borrower, debt_asset, debt_to_pay,
             unchecked_sub(get_d_token_balance(w.storage, borrower, debt_asset),
                           d_tokens_to_burn, wraps),
             wraps)

\* lines 243-252
write_cdp(w, env, auction_id, borrower, rwa_token, cdp, collateral_received, debt_to_pay, d_tokens_to_burn, d_tokens, wraps) ==
    IF IsOverflowed(d_tokens) THEN Fail("Panic", w)
    ELSE write_collateral(
             [w EXCEPT !.cdps[borrower] = Some(burned_cdp(cdp, d_tokens, env.timestamp))],
             env, w.storage, auction_id, borrower, rwa_token, cdp.debt_asset[1], debt_to_pay,
             d_tokens_to_burn,
             unchecked_sub(get_collateral(w.storage, borrower, rwa_token),
                           collateral_received, wraps),
             wraps)

\* lines 236-243
burn_d_tokens(w, env, auction_id, borrower, rwa_token, cdp, collateral_received, debt_to_pay, d_tokens_to_burn, wraps) ==
    IF IsErr(d_tokens_to_burn) THEN Fail("ArithmeticError", w)
    ELSE write_cdp(w, env, auction_id, borrower, rwa_token, cdp, collateral_received,
                   debt_to_pay, d_tokens_to_burn,
                   unchecked_sub(cdp.d_tokens, d_tokens_to_burn, wraps), wraps)

\* lines 228-241
update_cdp(w, env, auction_id, borrower, rwa_token, collateral_received, debt_to_pay, wraps) ==
    IF w.cdps[borrower] = None THEN Fail("CDPNotInsolvent", w)
    ELSE IF w.cdps[borrower][1].debt_asset = None THEN Fail("DebtAssetNotSet", w)
    ELSE burn_d_tokens(w, env, auction_id, borrower, rwa_token, w.cdps[borrower][1],
             collateral_received, debt_to_pay,
             d_tokens_to_burn_of(debt_to_pay,
                 get_d_token_rate(w.storage, w.cdps[borrower][1].debt_asset[1], env.timestamp)),
             wraps)

\* lines 224-225
transfer_collateral(w, env, auction_id, liquidator, borrower, rwa_token, collateral_received, debt_to_pay, wraps) ==
    IF ~can_transfer(w.balances, rwa_token, "pool", liquidator, collateral_received)
    THEN Fail("TransferFailed", w)
    ELSE update_cdp([w EXCEPT !.balances = transfer(@, rwa_token, "pool", liquidator,
                                                    collateral_received)],
                    env, auction_id, borrower, rwa_token, collateral_received, debt_to_pay,
                    wraps)

\* lines 207-221
transfer_debt(w, env, auction_id, liquidator, borrower, rwa_token, debt_token_address, collateral_received, debt_to_pay, wraps) ==
    IF IsErr(collateral_received) \/ IsErr(debt_to_pay) THEN Fail("ArithmeticError", w)
    ELSE IF ~can_transfer(w.balances, debt_token_address, liquidator, "pool", debt_to_pay)
    THEN Fail("TransferFailed", w)
    ELSE transfer_collateral(
             [w EXCEPT !.balances = transfer(@, debt_token_address, liquidator, "pool",
                                             debt_to_pay)],
             env, auction_id, liquidator, borrower, rwa_token, collateral_received,
             debt_to_pay, wraps)

\* lines 181-217
fill_user_liquidation(w, env, auction_id, liquidator, auction, modifiers, wraps) ==
    IF auction.auction_type # "UserLiquidation" THEN Fail("AuctionNotActive", w)
    ELSE IF DOMAIN auction.lot = {} \/ DOMAIN auction.bid = {} THEN Fail("AuctionNotActive", w)
    ELSE transfer_debt(w, env, auction_id, liquidator, auction.user,
                       FirstKey(auction.lot), FirstKey(auction.bid),
                       modified(auction.lot[FirstKey(auction.lot)], modifiers.lot),
                       modified(auction.bid[FirstKey(auction.bid)], modifiers.bid),
                       wraps)

fill_auction(w, env, auction_id, liquidator, wraps) ==
    IF MapGet(w.storage.auction_data, auction_id) = None THEN Fail("AuctionNotFound", w)
    ELSE fill_user_liquidation(w, env, auction_id, liquidator,
             w.storage.auction_data[auction_id],
             calculate_auction_modifiers(env.sequence - w.storage.auction_data[auction_id].block),
             wraps)

\* ------------------------------------------------------------------------
\* BadDebt (operations/bad_debt.rs)
\* ------------------------------------------------------------------------
\* line 236
BadDebt_generate_auction_id(env) ==
    wrapping_add(I(env.sequence), AsU32(I(env.timestamp)))

BAD_DEBT_AUCTION_DURATION == 400

\* lines 211-230, as [lot, bid]
BadDebt_calculate_modifiers(blocks_elapsed) ==
    IF blocks_elapsed >= BAD_DEBT_AUCTION_DURATION THEN [lot |-> SCALAR_12, bid |-> Zero]
    ELSE [lot |-> Div(Mul(I(blocks_elapsed), SCALAR_12), I(BAD_DEBT_AUCTION_DURATION)),
          bid |-> Sub(SCALAR_12,
                      Div(Mul(I(blocks_elapsed), SCALAR_12), I(BAD_DEBT_AUCTION_DURATION)))]

\* lines 48-51: the sum of the borrower's collateral from the i-th key on
RECURSIVE total_collateral_from(_, _, _, _)
total_collateral_from(all_collateral, i, total, wraps) ==
    IF i > Len(RwaTokenOrder) THEN total
    ELSE total_collateral_from(all_collateral, i + 1,
             unchecked_add(total, all_collateral[RwaTokenOrder[i]], wraps), wraps)

BadDebtAuction(borrower, block) ==
    [auction_type |-> "BadDebt", user |-> borrower, bid |-> EmptyMap, lot |-> EmptyMap,
     block |-> block]

\* lines 53-98, without the test of total_collateral at line 53
store_bad_debt_auction_any_collateral(w, env, a, cdp, total_collateral) ==
    IF IsOverflowed(total_collateral) THEN Fail("Panic", w)
    ELSE IF IsErr(debt_amount_of(cdp.d_tokens,
                                 get_d_token_rate(w.storage, a.debt_asset, env.timestamp)))
    THEN Fail("ArithmeticError", w)
    ELSE Done([w EXCEPT !.storage.auction_data =
                   MapSet(@, BadDebt_generate_auction_id(env),
                          BadDebtAuction(a.borrower, env.sequence))],
              BadDebt_generate_auction_id(env))
\* lines 53-98
store_bad_debt_auction(w, env, a, cdp, total_collateral) ==
    IF IsOverflowed(total_collateral) THEN Fail("Panic", w)
    ELSE IF Gt(total_collateral, Zero) THEN Fail("CDPNotInsolvent", w)
    ELSE IF IsErr(debt_amount_of(cdp.d_tokens,
                                 get_d_token_rate(w.storage, a.debt_asset, env.timestamp)))
    THEN Fail("ArithmeticError", w)
    ELSE Done([w EXCEPT !.storage.auction_data =
                   MapSet(@, BadDebt_generate_auction_id(env),
                          BadDebtAuction(a.borrower, env.sequence))],
              BadDebt_generate_auction_id(env))

create_bad_debt_auction(w, env, a, wraps) ==
    IF w.cdps[a.borrower] = None THEN Fail("CDPNotInsolvent", w)
    ELSE IF IsZero(w.cdps[a.borrower][1].d_tokens) THEN Fail("AuctionNotActive", w)
    ELSE store_bad_debt_auction(w, env, a, w.cdps[a.borrower][1],
             total_collateral_from(get_all_collateral(w.storage, a.borrower), 1, Zero, wraps))

\* lines 176-193: the PoolStorage loaded at line 119 with the backstop reduced
\* and the auction removed if the debt is gone, stored at line 193
settle_bad_debt(stale, auction_id, backstop_tokens, d_tokens) ==
    [stale EXCEPT
        !.backstop_total = IF Gt(backstop_tokens, Zero)
                           THEN saturating_sub(@, backstop_tokens) ELSE @,
        !.auction_data = IF IsZero(d_tokens) THEN MapRemove(@, auction_id) ELSE @]

\* lines 169-204
cover_debt(w, env, auction_id, borrower, cdp, backstop_tokens, d_tokens, pool_balance) ==
    IF IsOverflowed(pool_balance)
    THEN Fail("Panic", [w EXCEPT !.cdps[borrower] =
                            Some(burned_cdp(cdp, d_tokens, env.timestamp))])
    ELSE Done([w EXCEPT !.cdps[borrower] = Some(burned_cdp(cdp, d_tokens, env.timestamp)),
                        !.storage = settle_bad_debt(@, auction_id, backstop_tokens, d_tokens)],
              backstop_tokens)

\* lines 161-185
burn_bad_debt(w, env, auction_id, borrower, cdp, backstop_tokens, debt_to_cover, d_tokens_to_burn, wraps) ==
    IF IsErr(d_tokens_to_burn) THEN Fail("ArithmeticError", w)
    ELSE cover_debt(w, env, auction_id, borrower, cdp, backstop_tokens,
                    saturating_sub(cdp.d_tokens, d_tokens_to_burn),
                    unchecked_add(get_pool_balance(w.storage, cdp.debt_asset[1]),
                                  debt_to_cover, wraps))

\* lines 138-204
cover_bad_debt(w, env, auction_id, borrower, backstop_tokens, debt_to_cover, wraps) ==
    IF IsErr(backstop_tokens) \/ IsErr(debt_to_cover) THEN Fail("ArithmeticError", w)
    ELSE IF w.cdps[borrower] = None THEN Fail("CDPNotInsolvent", w)
    ELSE IF w.cdps[borrower][1].debt_asset = None
    THEN Done([w EXCEPT !.storage =
                   settle_bad_debt(@, auction_id, Zero, w.cdps[borrower][1].d_tokens)],
              backstop_tokens)
    ELSE burn_bad_debt(w, env, auction_id, borrower, w.cdps[borrower][1], backstop_tokens,
             debt_to_cover,
             d_tokens_to_burn_of(debt_to_cover,
                 get_d_token_rate(w.storage, w.cdps[borrower][1].debt_asset[1], env.timestamp)),
             wraps)

\* lines 130-150, without the check of the auction type of lines 126-128
fill_bad_debt_any_kind(w, env, auction_id, auction, amount, modifiers, wraps) ==
    cover_bad_debt(w, env, auction_id, auction.user, modified(amount, modifiers.lot),
                   modified(amount, modifiers.bid), wraps)

\* lines 126-150
fill_bad_debt(w, env, auction_id, auction, amount, modifiers, wraps) ==
    IF auction.auction_type # "BadDebt" THEN Fail("AuctionNotActive", w)
    ELSE cover_bad_debt(w, env, auction_id, auction.user, modified(amount, modifiers.lot),
                        modified(amount, modifiers.bid), wraps)

\* lines 119-150, with a missing auction reported as an inactive one
fill_bad_debt_auction_inactive(w, env, auction_id, bidder, amount, wraps) ==
    IF MapGet(w.storage.auction_data, auction_id) = None THEN Fail("AuctionNotActive", w)
    ELSE fill_bad_debt(w, env, auction_id, w.storage.auction_data[auction_id], amount,
             BadDebt_calculate_modifiers(env.sequence - w.storage.auction_data[auction_id].block),
             wraps)
\* lines 111-205
fill_bad_debt_auction(w, env, auction_id, bidder, amount, wraps) ==
    IF MapGet(w.storage.auction_data, auction_id) = None THEN Fail("AuctionNotFound", w)
    ELSE fill_bad_debt(w, env, auction_id, w.storage.auction_data[auction_id], amount,
             BadDebt_calculate_modifiers(env.sequence - w.storage.auction_data[auction_id].block),
             wraps)

\* ------------------------------------------------------------------------
\* InterestAuction (operations/interest_auction.rs)
\* ------------------------------------------------------------------------
\* line 235
InterestAuction_generate_auction_id(env) ==
    wrapping_add(wrapping_add(I(env.sequence), AsU32(I(env.timestamp))), I(1000))

INTEREST_AUCTION_DURATION == 200

\* lines 37 and 247: 100 with 7 decimals
min_auction_amount == Mul(I(100), SCALAR_7)

\* lines 209-228, with a lot that grows as the lots of the other kinds do
InterestAuction_calculate_modifiers_growing(blocks_elapsed) ==
    IF blocks_elapsed >= INTEREST_AUCTION_DURATION THEN [lot |-> SCALAR_12, bid |-> Zero]
    ELSE [lot |-> Div(Mul(I(blocks_elapsed), SCALAR_12), I(INTEREST_AUCTION_DURATION)),
          bid |-> Sub(SCALAR_12,
                      Div(Mul(I(blocks_elapsed), SCALAR_12), I(INTEREST_AUCTION_DURATION)))]
\* lines 209-228, as [lot, bid]
InterestAuction_calculate_modifiers(blocks_elapsed) ==
    IF blocks_elapsed >= INTEREST_AUCTION_DURATION THEN [lot |-> SCALAR_12, bid |-> Zero]
    ELSE [lot |-> SCALAR_12,
          bid |-> Sub(SCALAR_12,
                      Div(Mul(I(blocks_elapsed), SCALAR_12), I(INTEREST_AUCTION_DURATION)))]

\* lines 245-249
can_create_auction(st, asset, now) ==
    Ge(get_reserve_data(st, asset, now).backstop_credit, min_auction_amount)

\* line 38: the credit is below the least amount an auction takes
insufficient_interest_le(reserve_data) == Le(reserve_data.backstop_credit, min_auction_amount)
insufficient_interest(reserve_data) == Lt(reserve_data.backstop_credit, min_auction_amount)

InterestLot(token_address, backstop_credit, block) ==
    [auction_type |-> "Interest", user |-> "pool", bid |-> EmptyMap,
     lot |-> MapSet(EmptyMap, token_address, backstop_credit), block |-> block]

\* lines 31-77
create_interest_auction(w, env, asset) ==
    IF insufficient_interest(get_reserve_data(w.storage, asset, env.timestamp))
    THEN Fail("AuctionNotActive", w)
    ELSE IF get_token_contract(w.storage, asset) = None THEN Fail("TokenContractNotSet", w)
    ELSE Done([w EXCEPT !.storage.auction_data =
                   MapSet(@, InterestAuction_generate_auction_id(env),
                          InterestLot(get_token_contract(w.storage, asset)[1],
                                      get_reserve_data(w.storage, asset, env.timestamp)
                                          .backstop_credit,
                                      env.sequence))],
              InterestAuction_generate_auction_id(env))

\* lines 178-186: the auction map of the PoolStorage loaded at line 103
\* lines 177-186 without the removal of line 178: an emptied lot stays stored
updated_lot_never_removed(stale, auction_id, auction, token_address, remaining_interest) ==
    [stale EXCEPT !.auction_data =
         MapSet(@, auction_id,
                [auction EXCEPT !.lot = MapSet(@, token_address, remaining_interest)])]

updated_lot(stale, auction_id, auction, token_address, remaining_interest) ==
    IF Le(remaining_interest, Zero)
    THEN [stale EXCEPT !.auction_data = MapRemove(@, auction_id)]
    ELSE [stale EXCEPT !.auction_data =
              MapSet(@, auction_id,
                     [auction EXCEPT !.lot = MapSet(@, token_address, remaining_interest)])]

\* lines 177-200; stale is the PoolStorage loaded at line 103 as the handler
\* changed it, w the state the handler has written so far
update_lot(w, stale, auction_id, auction, token_address, remaining_interest, interest_to_receive, backstop_to_pay) ==
    IF IsOverflowed(remaining_interest) THEN Fail("Panic", w)
    ELSE Done([w EXCEPT !.storage = updated_lot(stale, auction_id, auction, token_address,
                                                remaining_interest)],
              [interest_to_receive |-> interest_to_receive,
               backstop_to_pay |-> backstop_to_pay])

\* lines 169-173
reduced_credit(st, asset, interest_to_receive, now) ==
    set_reserve_data(st, asset,
        [get_reserve_data(st, asset, now) EXCEPT
            !.backstop_credit = saturating_sub(@, interest_to_receive)])

\* lines 160-186
send_interest(w, stale, env, auction_id, bidder, asset, auction, token_address, total_interest, interest_to_receive, backstop_to_pay, wraps) ==
    IF ~Gt(interest_to_receive, Zero)
    THEN update_lot(w, stale, auction_id, auction, token_address,
                    unchecked_sub(total_interest, interest_to_receive, wraps),
                    interest_to_receive, backstop_to_pay)
    ELSE IF ~can_transfer(w.balances, token_address, "pool", bidder, interest_to_receive)
    THEN Fail("TransferFailed", w)
    ELSE update_lot([w EXCEPT !.balances = transfer(@, token_address, "pool", bidder,
                                                    interest_to_receive),
                              !.storage = reduced_credit(@, asset, interest_to_receive,
                                                         env.timestamp)],
                    stale, auction_id, auction, token_address,
                    unchecked_sub(total_interest, interest_to_receive, wraps),
                    interest_to_receive, backstop_to_pay)

\* lines 152-156: the backstop token moves if one is set, backstop_total grows
backstop_paid(w, stale, bidder, backstop_to_pay) ==
    IF stale.backstop_token = None THEN w
    ELSE [w EXCEPT !.balances = transfer(@, stale.backstop_token[1], bidder, "pool",
                                         backstop_to_pay)]

\* lines 156-186, after the backstop token moved
grow_backstop(w, stale, env, auction_id, bidder, asset, auction, token_address, total_interest, interest_to_receive, backstop_to_pay, backstop_total, wraps) ==
    IF IsOverflowed(backstop_total) THEN Fail("Panic", w)
    ELSE send_interest(w, [stale EXCEPT !.backstop_total = backstop_total], env, auction_id,
                       bidder, asset, auction, token_address, total_interest,
                       interest_to_receive, backstop_to_pay, wraps)

\* lines 144-157
receive_backstop(w, stale, env, auction_id, bidder, asset, auction, token_address, total_interest, interest_to_receive, backstop_to_pay, wraps) ==
    IF IsErr(backstop_to_pay) THEN Fail("ArithmeticError", w)
    ELSE IF ~Gt(backstop_to_pay, Zero)
    THEN send_interest(w, stale, env, auction_id, bidder, asset, auction, token_address,
                       total_interest, interest_to_receive, backstop_to_pay, wraps)
    ELSE IF /\ stale.backstop_token # None
            /\ ~can_transfer(w.balances, stale.backstop_token[1], bidder, "pool",
                             backstop_to_pay)
    THEN Fail("TransferFailed", w)
    ELSE grow_backstop(backstop_paid(w, stale, bidder, backstop_to_pay), stale, env,
                       auction_id, bidder, asset, auction, token_address, total_interest,
                       interest_to_receive, backstop_to_pay,
                       unchecked_add(stale.backstop_total, backstop_to_pay, wraps), wraps)

\* lines 131-139: total_interest * fill_percent / SCALAR_7 * lot_modifier / SCALAR_12
interest_to_receive_of(total_interest, fill_percent, lot_modifier) ==
    modified(checked_div(checked_mul(total_interest, fill_percent), SCALAR_7), lot_modifier)

\* lines 125-148
split_interest(w, env, auction_id, bidder, asset, auction, token_address, total_interest, interest_to_receive, bid_modifier, wraps) ==
    IF IsZero(total_interest) THEN Fail("AuctionNotActive", w)
    ELSE IF IsErr(interest_to_receive) THEN Fail("ArithmeticError", w)
    ELSE receive_backstop(w, w.storage, env, auction_id, bidder, asset, auction,
                          token_address, total_interest, interest_to_receive,
                          modified(interest_to_receive, bid_modifier), wraps)

\* lines 121-139
read_lot(w, env, auction_id, bidder, asset, fill_percent, auction, modifiers, token_address, wraps) ==
    split_interest(w, env, auction_id, bidder, asset, auction, token_address,
        unwrap_or(MapGet(auction.lot, token_address), Zero),
        interest_to_receive_of(unwrap_or(MapGet(auction.lot, token_address), Zero),
                               fill_percent, modifiers.lot),
        modifiers.bid, wraps)

\* lines 110-125
fill_interest(w, env, auction_id, bidder, asset, fill_percent, auction, modifiers, wraps) ==
    IF auction.auction_type # "Interest" THEN Fail("AuctionNotActive", w)
    ELSE IF get_token_contract(w.storage, asset) = None THEN Fail("TokenContractNotSet", w)
    ELSE read_lot(w, env, auction_id, bidder, asset, fill_percent, auction, modifiers,
                  get_token_contract(w.storage, asset)[1], wraps)

\* lines 98-118, without the upper bound of line 99
fill_interest_auction_no_upper(w, env, auction_id, bidder, asset, fill_percent, wraps) ==
    IF Le(fill_percent, Zero) THEN Fail("InvalidFillPercent", w)
    ELSE IF MapGet(w.storage.auction_data, auction_id) = None THEN Fail("AuctionNotFound", w)
    ELSE fill_interest(w, env, auction_id, bidder, asset, fill_percent,
             w.storage.auction_data[auction_id],
             InterestAuction_calculate_modifiers(
                 env.sequence - w.storage.auction_data[auction_id].block),
             wraps)
\* lines 89-201
fill_interest_auction(w, env, auction_id, bidder, asset, fill_percent, wraps) ==
    IF Le(fill_percent, Zero) \/ Gt(fill_percent, SCALAR_7) THEN Fail("InvalidFillPercent", w)
    ELSE IF MapGet(w.storage.auction_data, auction_id) = None THEN Fail("AuctionNotFound", w)
    ELSE fill_interest(w, env, auction_id, bidder, asset, fill_percent,
             w.storage.auction_data[auction_id],
             InterestAuction_calculate_modifiers(
                 env.sequence - w.storage.auction_data[auction_id].block),
             wraps)

\* ------------------------------------------------------------------------
\* Ledger: the host closes ledgers; time and sequence only grow
\* ------------------------------------------------------------------------
\* closing ledgers: the sequence and the time advance together
CloseLedgers(steps) ==
    \E step \in steps :
        /\ ledger.closed < MaxLedgers
        /\ ledger' = [ledger EXCEPT !.timestamp = @ + step.dt,
                                     !.sequence = @ + step.seq,
                                     !.closed = @ + 1]
        /\ last' = [op |-> "ledger", args |-> step, err |-> "Ok",
                    pre |-> World, written |-> World, ret |-> Zero]
        /\ UNCHANGED <<storage, cdps, balances, oracle>>

\* for accrual: seconds, hours and a year
LedgerSteps == {[seq |-> 100, dt |-> 5], [seq |-> 200, dt |-> 7200],
                [seq |-> 400, dt |-> SECONDS_PER_YEAR]}
AdvanceLedger == CloseLedgers(LedgerSteps)

\* for auctions: half a liquidation window in which the prices grow older
\* than a day, one window and two windows of ledgers that close every four
\* seconds, with the prices still fresh: sequence + timestamp grows by 1000
\* and by 2000, the offsets between the ids of the auction kinds
AuctionLedgerSteps == {[seq |-> 100, dt |-> 90000], [seq |-> 200, dt |-> 800],
                       [seq |-> 400, dt |-> 1600]}
AdvanceAuctionLedger == CloseLedgers(AuctionLedgerSteps)

\* ------------------------------------------------------------------------
\* Reserves as deposits and borrows left them when accrual starts
\* ------------------------------------------------------------------------
InitLedger ==
    [timestamp |-> 1000, sequence |-> 10, closed |-> 0, admin_calls |-> 0, calls |-> 0]

Tokens(n) == Mul(I(n), SCALAR_12)

Reserve(b_supply, d_supply) ==
    [ReserveData_new(InitLedger.timestamp) EXCEPT !.b_supply = b_supply, !.d_supply = d_supply]

\* 10^26
HugeSupply == Mul(Mul(I(100), SCALAR_12), SCALAR_12)

ReserveChoices ==
    {None,
     Some(Reserve(Zero, Zero)),
     Some(Reserve(Tokens(1000000), Zero)),
     Some(Reserve(Tokens(1000000), Tokens(800000))),
     Some(Reserve(I(7), I(3))),
     Some(Reserve(HugeSupply, HugeSupply))}

NoCdps == [b \in Borrowers |-> None]
NoBalances == [t \in TokenContracts |-> [h \in Holders |-> Zero]]
NoPrices == [rwa |-> [t \in RwaTokens |-> None], crypto |-> [a \in Assets |-> None]]

InitAccrual ==
    /\ \E take_rate \in InitTakeRates, reserve \in ReserveChoices :
           storage = [initialize(take_rate) EXCEPT !.reserve_data["USDC"] = reserve]
    /\ cdps = NoCdps
    /\ balances = NoBalances
    /\ ledger = InitLedger
    /\ oracle = NoPrices
    /\ last = [op |-> "init", args |-> <<>>, err |-> "Ok",
               pre |-> World, written |-> World, ret |-> Zero]

NextAccrual ==
    \/ AdvanceLedger
    \/ \E asset \in Assets : AccrueInterest(asset)
    \/ SetBackstopTakeRate
    \/ SetInterestRateParams

SpecAccrual == InitAccrual /\ [][NextAccrual]_vars

\* ------------------------------------------------------------------------
\* The lending pool with open positions: liquidations and auctions
\* ------------------------------------------------------------------------
\* what follows a failed call is explored from the state the call started from
AfterCommit == last.err = "Ok"

\* a call of the contract: the host commits or rolls back; ledger.calls
\* counts the calls that succeeded, and a call that fails is explored after
\* any number of them. A failed call leaves the state it started from, so the
\* calls that can follow it are those that can follow that state: they are
\* explored from there
Call(res, op, args) ==
    /\ AfterCommit
    /\ ledger.calls < MaxCalls \/ Failed(res)
    /\ HostCommit(res, op, args)
    /\ ledger' = [ledger EXCEPT !.calls = IF Failed(res) THEN @ ELSE @ + 1]
    /\ UNCHANGED oracle

\* amounts with 7 decimals
Units(n) == Mul(I(n), SCALAR_7)

Filler == "filler"
\* i128 arguments callers pass
LiquidationPercents == {I(5000000), SCALAR_7}
FillPercents == {Zero, I(5000000), SCALAR_7, Add(SCALAR_7, I(1))}
BadDebtAmounts == {Units(100), Units(300), Units(500), Neg(Units(100))}
\* the operations that fill an auction
FillOperations == {"fill_auction", "fill_bad_debt_auction", "fill_interest_auction"}
\* the auctions in storage, the auction the last call filled (stored still or
\* removed by it) and an id no auction ever had
AuctionIds ==
    DOMAIN storage.auction_data
        \cup (IF last.op \in FillOperations THEN {last.args.auction_id} ELSE {})
        \cup {Zero}
\* the assets a caller may name: the pool's and one it has no reserve of
NamedAssets == Assets \cup {"XLM"}

\* accrue_interest as a call of its own (the pool's entry points run it too)
AccrueInterestCall ==
    \E asset \in Assets, wraps \in BOOLEAN :
        Call(InstanceResult(accrue_interest(storage, asset, ledger.timestamp, wraps), World),
             "accrue_interest", [asset |-> asset])

InitiateLiquidation ==
    \E borrower \in Borrowers, rwa_token \in RwaTokens, debt_asset \in NamedAssets,
       liquidation_percent \in LiquidationPercents :
        Call(initiate_liquidation(World, Env,
                 [borrower |-> borrower, rwa_token |-> rwa_token, debt_asset |-> debt_asset,
                  liquidation_percent |-> liquidation_percent]),
             "initiate_liquidation",
             [borrower |-> borrower, rwa_token |-> rwa_token, debt_asset |-> debt_asset,
              liquidation_percent |-> liquidation_percent])

FillAuction ==
    \E auction_id \in AuctionIds, wraps \in BOOLEAN :
        Call(fill_auction(World, Env, auction_id, Filler, wraps),
             "fill_auction", [auction_id |-> auction_id, liquidator |-> Filler])

CreateBadDebtAuction ==
    \E borrower \in Borrowers, debt_asset \in Assets, wraps \in BOOLEAN :
        Call(create_bad_debt_auction(World, Env,
                 [borrower |-> borrower, debt_asset |-> debt_asset], wraps),
             "create_bad_debt_auction", [borrower |-> borrower, debt_asset |-> debt_asset])

FillBadDebtAuction ==
    \E auction_id \in AuctionIds, amount \in BadDebtAmounts, wraps \in BOOLEAN :
        Call(fill_bad_debt_auction(World, Env, auction_id, Filler, amount, wraps),
             "fill_bad_debt_auction",
             [auction_id |-> auction_id, bidder |-> Filler, amount |-> amount])

CreateInterestAuction ==
    \E asset \in NamedAssets :
        Call(create_interest_auction(World, Env, asset),
             "create_interest_auction", [asset |-> asset])

FillInterestAuction ==
    \E auction_id \in AuctionIds, asset \in Assets, fill_percent \in FillPercents,
       wraps \in BOOLEAN :
        Call(fill_interest_auction(World, Env, auction_id, Filler, asset, fill_percent, wraps),
             "fill_interest_auction",
             [auction_id |-> auction_id, bidder |-> Filler, asset |-> asset,
              fill_percent |-> fill_percent])

\* a call of the admin on the pool with open positions, among at most
\* MaxAdminCalls
AdminCall(r, op, args) ==
    /\ AfterCommit
    /\ ledger.admin_calls < MaxAdminCalls
    /\ HostCommit(InstanceResult(r, World), op, args)
    /\ ledger' = [ledger EXCEPT !.admin_calls = @ + 1]
    /\ UNCHANGED oracle

\* u32 factors the admin passes: 25%, 100% and one above 100%
FactorArguments == {I(2500000), SCALAR_7, Add(SCALAR_7, I(1))}
\* the address the admin points an asset or the backstop to
AddressArguments == {"other_token"}

SetCollateralFactor ==
    \E rwa_token \in RwaTokens, factor \in FactorArguments :
        AdminCall(set_collateral_factor(storage, rwa_token, factor),
                  "set_collateral_factor", [rwa_token |-> rwa_token, factor |-> factor])

SetTokenContract ==
    \E asset \in Assets, token_address \in AddressArguments :
        AdminCall(set_token_contract(storage, asset, token_address),
                  "set_token_contract", [asset |-> asset, token_address |-> token_address])

SetBackstopToken ==
    \E token_address \in AddressArguments :
        AdminCall(set_backstop_token(storage, token_address),
                  "set_backstop_token", [token_address |-> token_address])

\* earlier accruals left a backstop credit of 100 USDC on the reserve;
\* alice borrowed 800 USDC against 10 NVDA; bob owes 300 USDC and has no
\* collateral left; carol borrowed 300 USDC against 10 NVDA; dave has no
\* position; other accounts supplied and borrowed the rest
OpenCdp(collateral, d_tokens) ==
    [collateral |-> collateral, debt_asset |-> Some("USDC"), d_tokens |-> d_tokens,
     created_at |-> InitLedger.timestamp, last_update |-> InitLedger.timestamp]

InitCdps ==
    [b \in Borrowers |->
        IF b = "alice" THEN Some(OpenCdp(MapSet(EmptyMap, "NVDA", Units(10)), Units(800)))
        ELSE IF b = "bob" THEN Some(OpenCdp(EmptyMap, Units(300)))
        ELSE IF b = "carol" THEN Some(OpenCdp(MapSet(EmptyMap, "NVDA", Units(10)), Units(300)))
        ELSE None]

InitStorage ==
    [initialize(I(500000)) EXCEPT
        !.token_contracts["USDC"] = Some("usdc_token"),
        !.backstop_token = Some("backstop_token"),
        !.backstop_total = Units(500),
        !.reserve_data["USDC"] =
            Some([Reserve(Units(2000000), Units(1100000)) EXCEPT
                     !.backstop_credit = Units(100)]),
        !.collateral["alice"]["NVDA"] = Units(10),
        !.d_token_balances["alice"]["USDC"] = Units(800),
        !.d_token_balances["bob"]["USDC"] = Units(300),
        !.collateral["carol"]["NVDA"] = Units(10),
        !.d_token_balances["carol"]["USDC"] = Units(300),
        !.pool_balances["USDC"] = Units(900000)]

InitBalances ==
    [t \in TokenContracts |-> [h \in Holders |->
        IF t = "usdc_token" THEN (IF h = "pool" THEN Units(900000) ELSE Units(1000))
        ELSE IF t = "NVDA" THEN (IF h = "pool" THEN Units(20) ELSE Zero)
        ELSE IF t = "backstop_token" THEN (IF h = "pool" THEN Units(500) ELSE Units(1000))
        ELSE (IF h = "pool" THEN Zero ELSE Units(1000))]]

\* NVDA at 100 USD and USDC at 1 USD, 7 decimals, published at the first ledger
InitPrices ==
    [rwa |-> [t \in RwaTokens |->
                 Some([price |-> Units(100), timestamp |-> InitLedger.timestamp])],
     crypto |-> [a \in Assets |->
                 Some([price |-> Units(1), timestamp |-> InitLedger.timestamp])]]

Init ==
    /\ storage = InitStorage
    /\ cdps = InitCdps
    /\ balances = InitBalances
    /\ ledger = InitLedger
    /\ oracle = InitPrices
    /\ last = [op |-> "init", args |-> <<>>, err |-> "Ok",
               pre |-> World, written |-> World, ret |-> Zero]

Next ==
    \/ AfterCommit /\ AdvanceAuctionLedger
    \/ AccrueInterestCall
    \/ InitiateLiquidation
    \/ FillAuction
    \/ CreateBadDebtAuction
    \/ FillBadDebtAuction
    \/ CreateInterestAuction
    \/ FillInterestAuction
    \/ SetCollateralFactor
    \/ SetTokenContract
    \/ SetBackstopToken

Spec == Init /\ [][Next]_vars

\* ------------------------------------------------------------------------
\* The auction modifiers as functions of the blocks elapsed
\* ------------------------------------------------------------------------
MaxBlocksElapsed == 450

AuctionKinds == {"UserLiquidation", "BadDebt", "Interest"}
\* blocks_elapsed is a u32: every value up to the bound, and a large one
BlocksElapsed == 0..MaxBlocksElapsed \cup {2147483647}

\* the modifiers the fill of an auction of this kind computes
modifiers_of(kind, blocks_elapsed) ==
    IF kind = "UserLiquidation" THEN calculate_auction_modifiers(blocks_elapsed)
    ELSE IF kind = "BadDebt" THEN BadDebt_calculate_modifiers(blocks_elapsed)
    ELSE InterestAuction_calculate_modifiers(blocks_elapsed)

\* the fill of an auction of the kind drawn, so many blocks after its start,
\* computes its modifiers
CalculateModifiers ==
    /\ last.op = "init"
    /\ last' = [op |-> "calculate_modifiers", args |-> last.args,
                err |-> "Ok", pre |-> World, written |-> World,
                ret |-> modifiers_of(last.args.kind, last.args.blocks_elapsed)]
    /\ UNCHANGED <<storage, cdps, balances, ledger, oracle>>

InitModifiers ==
    /\ storage = initialize(I(500000))
    /\ cdps = NoCdps
    /\ balances = NoBalances
    /\ ledger = InitLedger
    /\ oracle = NoPrices
    /\ \E kind \in AuctionKinds, blocks_elapsed \in BlocksElapsed :
           last = [op |-> "init", args |-> [kind |-> kind, blocks_elapsed |-> blocks_elapsed],
                   err |-> "Ok", pre |-> World, written |-> World, ret |-> Zero]

NextModifiers == CalculateModifiers

SpecModifiers == InitModifiers /\ [][NextModifiers]_vars

\* ------------------------------------------------------------------------
\* Properties of accrual
\* ------------------------------------------------------------------------
USDC == "USDC"
Accrued == last.op = "accrue_interest"
\* the reserve accrue_interest worked on, and the reserve stored after it
PreReserve == unwrap_or(last.pre.storage.reserve_data[USDC], ReserveData_new(ledger.timestamp))
PostReserve == unwrap_or(storage.reserve_data[USDC], ReserveData_new(ledger.timestamp))
PreParams == unwrap_or(last.pre.storage.interest_rate_params[USDC], default_params)
PreUtilization == calculate_utilization_internal(PreReserve)
Untouched == World = last.pre /\ last.written = last.pre

\* C2: accrue_interest called at a ledger time <= reserve.last_time returns Ok
\* and leaves the reserve and the rest of the pool storage unchanged.
C2_NoTimeTravel ==
    (Accrued /\ ledger.timestamp <= PreReserve.last_time)
        => (last.err = "Ok" /\ Untouched)

\* a second accrual in the ledger in which the first one raised the rates, and
\* an accrual of a reserve that is not stored yet
C2_Witness ==
    /\ Accrued /\ last.err = "Ok"
    /\ IsSome(last.pre.storage.reserve_data[USDC])
    /\ PreReserve.last_time = ledger.timestamp
    /\ Gt(PreReserve.d_rate, SCALAR_12)

\* C3: every stored reserve has ir_mod in [SCALAR_7/10, SCALAR_7*10].
C3_IrModBounded ==
    \A a \in Assets :
        IsSome(storage.reserve_data[a]) =>
            /\ Ge(storage.reserve_data[a][1].ir_mod, I(1000000))
            /\ Le(storage.reserve_data[a][1].ir_mod, I(100000000))

\* an accrual moved ir_mod onto the upper bound
C3_Witness ==
    /\ Accrued /\ last.err = "Ok"
    /\ Lt(PreReserve.ir_mod, I(100000000))
    /\ PostReserve.ir_mod = I(100000000)
    /\ PreUtilization.err = "Ok"
    /\ Gt(Add(PreReserve.ir_mod,
              Div(Mul(Mul(I(ledger.timestamp - PreReserve.last_time),
                          Sub(PreUtilization.val, PreParams.target_util)),
                      PreParams.reactivity), SCALAR_7)),
          I(100000000))

\* C4: no call lowers a reserve's d_rate.
C4_DRateMonotone == Ge(PostReserve.d_rate, PreReserve.d_rate)

C4_Witness == Accrued /\ last.err = "Ok" /\ Gt(PostReserve.d_rate, PreReserve.d_rate)

\* C5: no accrual lowers a reserve's b_rate while b_supply > 0, whatever
\* backstop_take_rate initialize or set_backstop_take_rate stored.
C5_BRateMonotone ==
    (Accrued /\ Gt(PreReserve.b_supply, Zero)) => Ge(PostReserve.b_rate, PreReserve.b_rate)

\* C6: in an accrual that is applied, the growth of the lenders' claim plus the
\* amount added to backstop_credit is at most the interest charged to borrowers.
LenderGrowth ==
    Div(Mul(PreReserve.b_supply, Sub(PostReserve.b_rate, PreReserve.b_rate)), SCALAR_12)
BackstopGrowth == Sub(PostReserve.backstop_credit, PreReserve.backstop_credit)
InterestCharged ==
    Div(Mul(PreReserve.d_supply, Sub(PostReserve.d_rate, PreReserve.d_rate)), SCALAR_12)
AccrualApplied ==
    /\ Accrued /\ last.err = "Ok"
    /\ ledger.timestamp > PreReserve.last_time
    /\ Gt(PreReserve.b_supply, Zero)
    /\ PreUtilization.err = "Ok" /\ Gt(PreUtilization.val, Zero)

C6_InterestSplit ==
    AccrualApplied => Le(Add(LenderGrowth, BackstopGrowth), InterestCharged)

\* C7: the documented scenario over one year yields utilization 8_000_000,
\* the segment-2 rate 1_850_000 and d_rate = 1_185_000_000_000.
ScenarioReserve ==
    [b_rate |-> SCALAR_12, d_rate |-> SCALAR_12, ir_mod |-> SCALAR_7,
     b_supply |-> Tokens(1000000), d_supply |-> Tokens(800000),
     backstop_credit |-> Zero, last_time |-> ledger.timestamp - SECONDS_PER_YEAR]
InScenario ==
    /\ Accrued
    /\ PreReserve = ScenarioReserve
    /\ PreParams = default_params

C7_Scenario ==
    InScenario =>
        /\ last.err = "Ok"
        /\ PreUtilization = [err |-> "Ok", val |-> I(8000000)]
        /\ Gt(PreUtilization.val, PreParams.target_util)
        /\ Le(PreUtilization.val, PreParams.max_util)
        /\ interest_rate(PreParams, PreUtilization.val, PreReserve.ir_mod) = I(1850000)
        /\ PostReserve.d_rate = Mul(I(1185000), I(1000000))

C7_Witness == InScenario /\ PostReserve.last_time = ledger.timestamp

\* C8 as stated: an accrual after last_time with b_supply = 0 or utilization 0
\* leaves every field of the reserve, last_time included, unchanged.
SkipsAccrual ==
    /\ Accrued
    /\ ledger.timestamp > PreReserve.last_time
    /\ \/ IsZero(PreReserve.b_supply)
       \/ PreUtilization = [err |-> "Ok", val |-> Zero]

C8_Original == SkipsAccrual => PostReserve = PreReserve

\* C8 amended: such an accrual returns Ok, sets the reserve's last_time to the
\* ledger time and changes nothing else in the reserve or the pool storage.
C8_OnlyLastTimeMoves ==
    SkipsAccrual =>
        /\ last.err = "Ok"
        /\ cdps = last.pre.cdps
        /\ balances = last.pre.balances
        /\ storage = [last.pre.storage EXCEPT !.reserve_data[USDC] =
                          Some([PreReserve EXCEPT !.last_time = ledger.timestamp])]

\* the skip taken because utilization is zero while b_supply > 0
C8_Witness ==
    /\ SkipsAccrual
    /\ Gt(PreReserve.b_supply, Zero)
    /\ PostReserve.last_time = ledger.timestamp

\* C9: an accrual whose arithmetic fails returns ArithmeticError, has written
\* nothing when it returns, and leaves the persisted state as it was; an
\* accrual ends in no other failure.
C9_ArithmeticErrorAtomic ==
    Accrued =>
        /\ last.err \in {"Ok", "ArithmeticError"}
        /\ last.err = "ArithmeticError" => Untouched

\* the failure comes from apply_accrual, after it assigned the new d_rate to
\* its copy of the reserve
C9_Witness ==
    /\ Accrued /\ last.err = "ArithmeticError"
    /\ PreUtilization.err = "Ok"
    /\ calc_accrual(PreParams, PreUtilization.val, PreReserve.ir_mod,
                    PreReserve.last_time, ledger.timestamp).err = "Ok"

\* ------------------------------------------------------------------------
\* Properties of liquidations and auctions
\* ------------------------------------------------------------------------
\* the last call was a fill_auction that returned Ok, and the auction it filled
Filled == last.op = "fill_auction" /\ last.err = "Ok"
FilledAuction == last.pre.storage.auction_data[last.args.auction_id]
\* the borrower's health factor as the persisted state gives it
PersistedHealth == calculate_health_factor(World, Env, FilledAuction.user)

\* C1: after a fill_auction that returned Ok, the borrower's health factor
\* computed from the persisted CDP and pool storage is at most
\* MAX_HEALTH_FACTOR.
C1_HealthCap ==
    Filled => (PersistedHealth.err = "Ok" => Le(PersistedHealth.val, MAX_HEALTH_FACTOR))

\* a fill_auction that failed with HealthFactorTooHigh after it had moved the
\* tokens and written the CDP, the collateral, the dToken balance and the pool
\* balance: the handler undoes none of it, the host discards it
FailedAfterWriting ==
    /\ last.op = "fill_auction" /\ last.err = "HealthFactorTooHigh"
    /\ last.written.balances # last.pre.balances
    /\ last.written.cdps # last.pre.cdps
    /\ last.written.storage.collateral # last.pre.storage.collateral
    /\ last.written.storage.d_token_balances # last.pre.storage.d_token_balances
    /\ last.written.storage.pool_balances # last.pre.storage.pool_balances

\* ------------------------------------------------------------------------
\* Gates of the calls that create an auction
\* ------------------------------------------------------------------------
Initiated == last.op = "initiate_liquidation"
\* the position initiate_liquidation was called for, and its health factor
\* in the state the call started from
InitiatedCdp == last.pre.cdps[last.args.borrower]
InitiatedHealth == calculate_health_factor(last.pre, Env, last.args.borrower)
NoDebtInNamedAsset ==
    \/ InitiatedCdp = None
    \/ InitiatedCdp[1].debt_asset # Some(last.args.debt_asset)
    \/ ~Gt(InitiatedCdp[1].d_tokens, Zero)
Healthy == InitiatedHealth.err = "Ok" /\ Ge(InitiatedHealth.val, SCALAR_7)
AuctionsUntouched ==
    /\ storage.auction_data = last.pre.storage.auction_data
    /\ last.written.storage.auction_data = last.pre.storage.auction_data

\* C11: initiate_liquidation stores an auction only for a position whose
\* health factor is below SCALAR_7; when the health factor is >= SCALAR_7, or
\* the borrower has no CDP or no debt in the named asset, the call fails with
\* CDPNotInsolvent and the stored auctions are as they were
C11_OnlyInsolvent ==
    Initiated =>
        /\ (NoDebtInNamedAsset \/ Healthy) =>
               (last.err = "CDPNotInsolvent" /\ AuctionsUntouched)
        /\ last.err = "Ok" =>
               (InitiatedHealth.err = "Ok" /\ Lt(InitiatedHealth.val, SCALAR_7))

\* a position with debt in the named asset and a health factor of 1.0 or
\* more was named, and the call was refused
C11_Witness ==
    /\ Initiated
    /\ ~NoDebtInNamedAsset
    /\ Healthy
    /\ last.err = "CDPNotInsolvent"

Created == last.op = "create_bad_debt_auction"
CreatedCdp == last.pre.cdps[last.args.borrower]
HoldsCollateral ==
    \E t \in DOMAIN get_all_collateral(last.pre.storage, last.args.borrower) :
        ~IsZero(get_all_collateral(last.pre.storage, last.args.borrower)[t])
NoBadDebt == CreatedCdp = None \/ IsZero(CreatedCdp[1].d_tokens) \/ HoldsCollateral

\* C12: create_bad_debt_auction fails with CDPNotInsolvent for a borrower
\* without a CDP, with AuctionNotActive for a CDP whose d_tokens is 0 and with
\* CDPNotInsolvent for a borrower who holds collateral, and stores no auction
\* in any of these cases; an auction it stores is for a CDP with debt and no
\* collateral
C12_BadDebtGate ==
    Created =>
        /\ NoBadDebt => AuctionsUntouched
        /\ CreatedCdp = None => last.err = "CDPNotInsolvent"
        /\ (CreatedCdp # None /\ IsZero(CreatedCdp[1].d_tokens)) =>
               last.err = "AuctionNotActive"
        /\ (CreatedCdp # None /\ ~IsZero(CreatedCdp[1].d_tokens) /\ HoldsCollateral) =>
               last.err = "CDPNotInsolvent"
        /\ last.err = "Ok" => ~NoBadDebt

\* a bad-debt auction was asked for a CDP whose debt an earlier fill had
\* brought to zero
C12_Witness ==
    /\ Created
    /\ CreatedCdp # None
    /\ IsZero(CreatedCdp[1].d_tokens)
    /\ last.err = "AuctionNotActive"
    /\ AuctionsUntouched

InterestCreated == last.op = "create_interest_auction"
\* the backstop credit of the reserve in the state the call started from
CreditBefore ==
    get_reserve_data(last.pre.storage, last.args.asset, ledger.timestamp).backstop_credit
CanCreateBefore == can_create_auction(last.pre.storage, last.args.asset, ledger.timestamp)

\* C13 as stated: whenever backstop_credit does not exceed 100_0000000,
\* create_interest_auction fails with AuctionNotActive and stores no auction,
\* and can_create_interest_auction returns false
C13_Original ==
    InterestCreated =>
        (~Gt(CreditBefore, min_auction_amount) =>
            (last.err = "AuctionNotActive" /\ AuctionsUntouched /\ ~CanCreateBefore))

\* C13: create_interest_auction fails with AuctionNotActive and stores no
\* auction when backstop_credit is below 100_0000000, and with the asset's
\* token contract set it succeeds when the credit is 100_0000000 or more;
\* can_create_interest_auction returns false exactly when the credit is below
\* 100_0000000
C13_CreditGate ==
    InterestCreated =>
        /\ Lt(CreditBefore, min_auction_amount) =>
               (last.err = "AuctionNotActive" /\ AuctionsUntouched)
        /\ last.err = "Ok" => Ge(CreditBefore, min_auction_amount)
        /\ (Ge(CreditBefore, min_auction_amount)
               /\ get_token_contract(last.pre.storage, last.args.asset) # None) =>
               last.err = "Ok"
        /\ ~CanCreateBefore <=> Lt(CreditBefore, min_auction_amount)

\* an auction was created for a credit of exactly 100_0000000
C13_Witness ==
    /\ InterestCreated
    /\ CreditBefore = min_auction_amount
    /\ CanCreateBefore
    /\ last.err = "Ok"
    /\ DOMAIN storage.auction_data # DOMAIN last.pre.storage.auction_data

\* ------------------------------------------------------------------------
\* Positions
\* ------------------------------------------------------------------------
\* C14: every stored CDP has debt_asset = Some exactly when its d_tokens is
\* greater than zero
C14_DebtAssetIffDebt ==
    \A b \in Borrowers :
        cdps[b] # None => (IsSome(cdps[b][1].debt_asset) <=> Gt(cdps[b][1].d_tokens, Zero))

\* ------------------------------------------------------------------------
\* Properties of the auction modifiers
\* ------------------------------------------------------------------------
Modified == last.op = "calculate_modifiers"
Elapsed == last.args.blocks_elapsed
InUnit(x) == Ge(x, Zero) /\ Le(x, SCALAR_12)
Least(a, b) == IF a <= b THEN a ELSE b
\* n/d of 1.0, scaled by SCALAR_12 and rounded down
Fraction(n, d) == Div(Mul(I(n), SCALAR_12), I(d))

\* C15: for every blocks_elapsed and each kind of auction, lot_modifier and
\* bid_modifier lie in [0, SCALAR_12]
C15_ModifierBounds == Modified => (InUnit(last.ret.lot) /\ InUnit(last.ret.bid))

\* the bid modifier of a liquidation past both windows: held at zero
C15_Witness ==
    /\ Modified
    /\ last.args.kind = "UserLiquidation"
    /\ Elapsed > 2 * AUCTION_DURATION_BLOCKS
    /\ last.ret.bid = Zero
    /\ last.ret.lot = SCALAR_12

\* the schedules of the three kinds
LiquidationSchedule(e) ==
    [lot |-> Fraction(Least(e, 200), 200),
     bid |-> IF e <= 200 THEN SCALAR_12
             ELSE IF e < 400 THEN Sub(SCALAR_12, Fraction(e - 200, 200))
             ELSE Zero]
BadDebtSchedule(e) ==
    [lot |-> Fraction(Least(e, 400), 400),
     bid |-> Sub(SCALAR_12, Fraction(Least(e, 400), 400))]
InterestSchedule(e) ==
    [lot |-> SCALAR_12, bid |-> Sub(SCALAR_12, Fraction(Least(e, 200), 200))]

\* C16: the modifiers follow the linear schedules: UserLiquidation lot =
\* min(e,200)/200, bid = 1.0 up to 200 blocks, 1.0 - (e-200)/200 between 200
\* and 400, 0 from 400 on; BadDebt lot = min(e,400)/400, bid = 1.0 - lot;
\* Interest lot = 1.0, bid = 1.0 - min(e,200)/200; the lot of a UserLiquidation
\* and of a BadDebt auction is 0 at e = 0 and SCALAR_12 from its duration on
C16_Schedules ==
    Modified =>
        /\ last.args.kind = "UserLiquidation" => last.ret = LiquidationSchedule(Elapsed)
        /\ last.args.kind = "BadDebt" => last.ret = BadDebtSchedule(Elapsed)
        /\ last.args.kind = "Interest" => last.ret = InterestSchedule(Elapsed)
        /\ (last.args.kind # "Interest" /\ Elapsed = 0) => last.ret.lot = Zero
        /\ (last.args.kind = "UserLiquidation" /\ Elapsed >= AUCTION_DURATION_BLOCKS) =>
               last.ret.lot = SCALAR_12
        /\ (last.args.kind = "BadDebt" /\ Elapsed >= BAD_DEBT_AUCTION_DURATION) =>
               last.ret.lot = SCALAR_12

\* a liquidation inside its second window: the whole lot for a part of the bid
C16_Witness ==
    /\ Modified
    /\ last.args.kind = "UserLiquidation"
    /\ Elapsed = 301
    /\ last.ret.lot = SCALAR_12
    /\ last.ret.bid = Mul(I(495), I(1000000000))

\* ------------------------------------------------------------------------
\* Fills
\* ------------------------------------------------------------------------
BadDebtFilled == last.op = "fill_bad_debt_auction" /\ last.err = "Ok"
InterestFilled == last.op = "fill_interest_auction" /\ last.err = "Ok"
\* blocks between the creation of the auction named and the call
BlocksSince == ledger.sequence - FilledAuction.block
\* the one amount of an auction's lot or bid map
OnlyAmount(map) == map[FirstKey(map)]
FilledUser == FilledAuction.user
FillerBalance(w, token) == w.balances[token][Filler]

\* C17: a fill after the whole decay window (400 blocks for a UserLiquidation
\* and a BadDebt auction, 200 for an Interest auction) delivers the whole lot
\* asked for and charges nothing: the liquidator receives the lot's
\* collateral and pays no debt, fill_bad_debt_auction returns the whole
\* amount and covers no debt, fill_interest_auction pays out fill_percent of
\* the lot for no backstop tokens
C17_DecayToFree ==
    /\ (Filled /\ BlocksSince >= 2 * AUCTION_DURATION_BLOCKS) =>
           /\ FillerBalance(World, FirstKey(FilledAuction.lot)) =
                  Add(FillerBalance(last.pre, FirstKey(FilledAuction.lot)),
                      OnlyAmount(FilledAuction.lot))
           /\ FillerBalance(World, FirstKey(FilledAuction.bid)) =
                  FillerBalance(last.pre, FirstKey(FilledAuction.bid))
           /\ cdps[FilledUser][1].d_tokens = last.pre.cdps[FilledUser][1].d_tokens
    /\ (BadDebtFilled /\ BlocksSince >= BAD_DEBT_AUCTION_DURATION) =>
           /\ last.ret = last.args.amount
           /\ cdps[FilledUser][1].d_tokens = last.pre.cdps[FilledUser][1].d_tokens
           /\ balances = last.pre.balances
           /\ storage.pool_balances = last.pre.storage.pool_balances
    /\ (InterestFilled /\ BlocksSince >= INTEREST_AUCTION_DURATION) =>
           /\ last.ret.interest_to_receive = Div(Mul(OnlyAmount(FilledAuction.lot), last.args.fill_percent),
                                SCALAR_7)
           /\ last.ret.backstop_to_pay = Zero
           /\ FillerBalance(World, "backstop_token") = FillerBalance(last.pre, "backstop_token")
           /\ FillerBalance(World, FirstKey(FilledAuction.lot)) =
                  Add(FillerBalance(last.pre, FirstKey(FilledAuction.lot)), last.ret.interest_to_receive)

\* a liquidation filled 400 blocks after it was initiated: the liquidator
\* holds the lot and has paid nothing
C17_Witness ==
    /\ Filled
    /\ BlocksSince >= 2 * AUCTION_DURATION_BLOCKS
    /\ Gt(OnlyAmount(FilledAuction.lot), Zero)
    /\ Gt(OnlyAmount(FilledAuction.bid), Zero)
    /\ FillerBalance(World, FirstKey(FilledAuction.lot)) =
           Add(FillerBalance(last.pre, FirstKey(FilledAuction.lot)),
               OnlyAmount(FilledAuction.lot))
    /\ FillerBalance(World, "usdc_token") = FillerBalance(last.pre, "usdc_token")

FillCalled == last.op \in FillOperations
NotStored == MapGet(last.pre.storage.auction_data, last.args.auction_id) = None
ValidFillPercent == Gt(last.args.fill_percent, Zero) /\ Le(last.args.fill_percent, SCALAR_7)
Refused(error) == last.err = error /\ World = last.pre /\ last.written = last.pre

\* C18 as stated: every fill call that names an auction id that is not stored
\* fails with AuctionNotFound and changes no state
C18_Original == (FillCalled /\ NotStored) => Refused("AuctionNotFound")

\* C18: fill_auction and fill_bad_debt_auction with an auction id that is not
\* stored, and fill_interest_auction with such an id and a fill_percent in
\* (0, SCALAR_7], fail with AuctionNotFound and change no state;
\* fill_interest_auction with a fill_percent outside (0, SCALAR_7] fails with
\* InvalidFillPercent whatever the id, and changes no state
C18_NotFound ==
    (FillCalled /\ NotStored) =>
        IF last.op = "fill_interest_auction" /\ ~ValidFillPercent
        THEN Refused("InvalidFillPercent")
        ELSE Refused("AuctionNotFound")

\* the auction a completed fill had removed was named again
C18_Witness ==
    /\ FillCalled
    /\ NotStored
    /\ last.args.auction_id # Zero
    /\ last.err = "AuctionNotFound"
    /\ World = last.pre

InterestFillCalled == last.op = "fill_interest_auction"

\* C19: fill_interest_auction with a fill_percent <= 0 or > SCALAR_7 fails
\* with InvalidFillPercent and has written nothing: the auction, the reserve,
\* backstop_total and the token balances are as before; a fill that succeeds
\* had a fill_percent in (0, SCALAR_7]
C19_FillPercentRange ==
    InterestFillCalled =>
        /\ ~ValidFillPercent => Refused("InvalidFillPercent")
        /\ last.err = "Ok" => ValidFillPercent

\* a stored Interest auction was named with a fill_percent of SCALAR_7 + 1
C19_Witness ==
    /\ InterestFillCalled
    /\ ~NotStored
    /\ FilledAuction.auction_type = "Interest"
    /\ Gt(last.args.fill_percent, SCALAR_7)
    /\ last.err = "InvalidFillPercent"
    /\ last.written = last.pre

\* the reserve of the asset named in the call, before it and as persisted
CreditOf(w) == get_reserve_data(w.storage, last.args.asset, ledger.timestamp).backstop_credit

\* C20: after a successful fill_interest_auction that paid out
\* interest_to_receive > 0, the persisted backstop_credit of the reserve is
\* lower by interest_to_receive (not below zero) and backstop_total is higher
\* by backstop_to_pay
C20_CreditReduced ==
    (InterestFilled /\ Gt(last.ret.interest_to_receive, Zero)) =>
        /\ CreditOf(World) =
               BigMax(Sub(CreditOf(last.pre), last.ret.interest_to_receive), Zero)
        /\ storage.backstop_total =
               Add(last.pre.storage.backstop_total, last.ret.backstop_to_pay)

\* ---------------------------------------------------------------------
\* Which fills consume the auction (liquidations.rs 262-270, bad_debt.rs 186-193)
\* ---------------------------------------------------------------------

StillStored == last.args.auction_id \in DOMAIN storage.auction_data
\* the borrower's d_tokens after the fill
DebtLeft == cdps[FilledUser][1].d_tokens

\* C21 as stated: every successful fill of a UserLiquidation auction and every
\* successful fill of a BadDebt auction removes the auction from auction_data
C21_Original == (Filled \/ BadDebtFilled) => ~StillStored

\* C21: every successful fill_auction removes the UserLiquidation auction from
\* the stored auction_data, so it cannot be filled again; a successful
\* fill_bad_debt_auction that leaves the borrower with debt keeps the BadDebt
\* auction stored with its status, lot and bid unchanged, open to another fill
C21_FillConsumes ==
    /\ Filled => ~StillStored
    /\ (BadDebtFilled /\ ~IsZero(DebtLeft)) =>
           /\ StillStored
           /\ storage.auction_data[last.args.auction_id] = FilledAuction
C21_Witness == BadDebtFilled /\ Gt(DebtLeft, Zero) /\ StillStored

\* ---------------------------------------------------------------------
\* Oracle answers (oracles.rs 15-88): liquidations under changing price feeds
\* ---------------------------------------------------------------------

\* feeds whose answer may change in one behaviour
MaxPublished == 1

\* the answers of lastprice that the code rejects when they are fresh: no
\* price at all, a zero price, a negative price
FaultyAnswers(now) ==
    {None, Some([price |-> Zero, timestamp |-> now]),
     Some([price |-> Neg(Units(1)), timestamp |-> now])}

Published ==
    Cardinality({t \in RwaTokens : oracle.rwa[t] # InitPrices.rwa[t]})
        + Cardinality({a \in Assets : oracle.crypto[a] # InitPrices.crypto[a]})

\* the oracle contract's answer for one feed changes; the pool is not called
PublishPrice ==
    /\ AfterCommit
    /\ Published < MaxPublished
    /\ \E answer \in FaultyAnswers(ledger.timestamp) :
           \/ \E t \in RwaTokens : oracle' = [oracle EXCEPT !.rwa[t] = answer]
           \/ \E a \in Assets : oracle' = [oracle EXCEPT !.crypto[a] = answer]
    /\ last' = [op |-> "lastprice", args |-> <<>>, err |-> "Ok",
                pre |-> World, written |-> World, ret |-> Zero]
    /\ UNCHANGED <<storage, cdps, balances, ledger>>

NextOracle ==
    \/ AfterCommit /\ AdvanceAuctionLedger
    \/ PublishPrice
    \/ InitiateLiquidation
    \/ FillAuction

SpecOracle == Init /\ [][NextOracle]_vars

\* what the claim says of one answer of lastprice at time now
PriceFault(answer, now) ==
    IF answer = None THEN "OraclePriceFetchFailed"
    ELSE IF ~Gt(answer[1].price, Zero) THEN "InvalidOraclePrice"
    ELSE IF answer[1].timestamp + 86400 < now THEN "InvalidOraclePrice"
    ELSE "Ok"

\* the faults of the prices the health factor of b's position needs in w:
\* those of the RWA tokens b holds, else that of the asset b owes
HeldTokens(w, b) ==
    {t \in DOMAIN get_all_collateral(w.storage, b) :
        ~IsZero(get_all_collateral(w.storage, b)[t])}
RwaFaults(w, b) ==
    {PriceFault(oracle.rwa[t], ledger.timestamp) : t \in HeldTokens(w, b)} \ {"Ok"}
DebtFaults(w, b) ==
    IF IsSome(w.cdps[b][1].debt_asset) /\ Gt(w.cdps[b][1].d_tokens, Zero)
    THEN {PriceFault(oracle.crypto[w.cdps[b][1].debt_asset[1]], ledger.timestamp)} \ {"Ok"}
    ELSE {}
NeededFaults(w, b) == IF RwaFaults(w, b) # {} THEN RwaFaults(w, b) ELSE DebtFaults(w, b)

\* the errors fill_auction returns before it reaches line 263
EarlyFillErrors ==
    {"AuctionNotFound", "AuctionNotActive", "ArithmeticError", "TransferFailed",
     "CDPNotInsolvent", "DebtAssetNotSet", "Panic"}
ReachedHealthCheck == last.op = "fill_auction" /\ last.err \notin EarlyFillErrors
InitiateReachedHealth ==
    /\ Initiated
    /\ InitiatedCdp # None
    /\ InitiatedCdp[1].debt_asset = Some(last.args.debt_asset)

\* C22: a price that is missing is answered with OraclePriceFetchFailed, one
\* that is non-positive or older than 24 hours with InvalidOraclePrice:
\* calculate_health_factor of a position that needs such a price returns that
\* error, initiate_liquidation for such a position fails with it, and
\* fill_auction fails with it when the position it has written needs such a
\* price; the failed calls change nothing
C22_PriceRejected ==
    /\ \A b \in Borrowers :
           (cdps[b] # None /\ NeededFaults(World, b) # {}) =>
               calculate_health_factor(World, Env, b).err \in NeededFaults(World, b)
    /\ (InitiateReachedHealth /\ NeededFaults(last.pre, last.args.borrower) # {}) =>
           /\ last.err \in NeededFaults(last.pre, last.args.borrower)
           /\ World = last.pre
    /\ (ReachedHealthCheck /\ NeededFaults(last.written, FilledUser) # {}) =>
           /\ last.err \in NeededFaults(last.written, FilledUser)
           /\ World = last.pre
C22_Witness ==
    /\ ReachedHealthCheck
    /\ last.err = "InvalidOraclePrice"
    /\ last.written # last.pre
    /\ World = last.pre

\* ---------------------------------------------------------------------
\* Auction ids (generate_auction_id of the three kinds)
\* ---------------------------------------------------------------------

CreateOperations == {"initiate_liquidation", "create_bad_debt_auction", "create_interest_auction"}
KindCreated ==
    IF last.op = "initiate_liquidation" THEN "UserLiquidation"
    ELSE IF last.op = "create_bad_debt_auction" THEN "BadDebt" ELSE "Interest"
\* a create call succeeded; it returned the id it stored the auction under
AuctionCreated == last.op \in CreateOperations /\ last.err = "Ok"
IdTaken == last.ret \in DOMAIN last.pre.storage.auction_data

\* C23: a successful create call of one kind never stores its auction under
\* the id of a stored auction of another kind
C23_NoCrossKindCollision ==
    (AuctionCreated /\ IdTaken) =>
        last.pre.storage.auction_data[last.ret].auction_type = KindCreated

CreateCalled == last.op \in CreateOperations
\* the id the create call generates in its ledger
NewId ==
    IF last.op = "initiate_liquidation" THEN Liquidations_generate_auction_id(Env)
    ELSE IF last.op = "create_bad_debt_auction" THEN BadDebt_generate_auction_id(Env)
    ELSE InterestAuction_generate_auction_id(Env)
Collides == NewId \in DOMAIN last.pre.storage.auction_data
\* the state the call started from, without the auction stored under the id
Vacated == [last.pre EXCEPT !.storage.auction_data = MapRemove(@, NewId)]
\* the same call on w
CreateOn(w, wraps) ==
    IF last.op = "initiate_liquidation" THEN initiate_liquidation(w, Env, last.args)
    ELSE IF last.op = "create_bad_debt_auction"
    THEN create_bad_debt_auction(w, Env, last.args, wraps)
    ELSE create_interest_auction(w, Env, last.args.asset)

\* C24: a create call whose id is already stored ends as it would have ended
\* with the id free; when it succeeds it returns the id, the auction it stores
\* under the id is the one it would have stored with the id free, so the
\* auction stored before is gone, and every other auction is as before
C24_LastWriteWins ==
    (CreateCalled /\ Collides) =>
        /\ \E wraps \in BOOLEAN : CreateOn(Vacated, wraps).err = last.err
        /\ last.err = "Ok" =>
               /\ last.ret = NewId
               /\ \E wraps \in BOOLEAN :
                      storage.auction_data = CreateOn(Vacated, wraps).world.storage.auction_data
C24_Witness ==
    /\ Initiated
    /\ Collides
    /\ last.err = "Ok"
    /\ last.pre.storage.auction_data[NewId].auction_type = "UserLiquidation"
    /\ storage.auction_data[NewId] # last.pre.storage.auction_data[NewId]

\* ---------------------------------------------------------------------
\* Rounding helpers (common/types.rs 294-336, mod rounding)
\* ---------------------------------------------------------------------

\* to_b_token_down with the numerator of to_b_token_up: rounds up
to_b_token_down_rounding_up(amount, b_rate) ==
    ok_or(checked_div(checked_sub(checked_add(checked_mul(amount, SCALAR_12), b_rate), I(1)),
                      b_rate))
\* to_b_token_up that answers a zero rate with zero bTokens
to_b_token_up_zero_rate(amount, b_rate) ==
    IF IsZero(b_rate) THEN Ok(Zero)
    ELSE ok_or(checked_div(checked_sub(checked_add(checked_mul(amount, SCALAR_12), b_rate),
                                       I(1)),
                           b_rate))

\* floor(amount * SCALAR_12 / b_rate)
to_b_token_down(amount, b_rate) ==
    ok_or(checked_div(checked_mul(amount, SCALAR_12), b_rate))

\* floor((amount * SCALAR_12 + b_rate - 1) / b_rate)
to_b_token_up(amount, b_rate) ==
    ok_or(checked_div(checked_sub(checked_add(checked_mul(amount, SCALAR_12), b_rate), I(1)),
                      b_rate))

\* floor(b_tokens * b_rate / SCALAR_12)
to_underlying_from_b_token(b_tokens, b_rate) ==
    ok_or(checked_div(checked_mul(b_tokens, b_rate), SCALAR_12))

\* a deposit of amount followed by the withdrawal of the bTokens minted
underlying_of(b_tokens, b_rate) ==
    IF b_tokens.err # "Ok" THEN b_tokens ELSE to_underlying_from_b_token(b_tokens.val, b_rate)
round_trip(amount, b_rate) == underlying_of(to_b_token_down(amount, b_rate), b_rate)

\* round trips in a row
MaxRoundTrips == 3

\* amounts from nothing to the largest i128, around the largest amount whose
\* product with SCALAR_12 fits, and one negative amount
RoundingAmounts ==
    {Zero, I(1), I(7), I(999999), SCALAR_7, I(123456789), Add(Units(1000), I(3)),
     Div(I128_MAX, SCALAR_12), Add(Div(I128_MAX, SCALAR_12), I(1)), I128_MAX, I(-1)}
\* rates from zero to the largest i128: below, at and above 1.0, and -1.0
BRates ==
    {Zero, I(1), I(3), SCALAR_12, Add(SCALAR_12, I(1)), Mul(I(1050000), I(1000000)),
     Add(Mul(I(2), SCALAR_12), I(7)), Mul(I(3), SCALAR_12), I128_MAX, Neg(SCALAR_12)}

InitRounding ==
    /\ storage = initialize(I(500000))
    /\ cdps = NoCdps
    /\ balances = NoBalances
    /\ ledger = InitLedger
    /\ oracle = NoPrices
    /\ \E amount \in RoundingAmounts, b_rate \in BRates :
           last = [op |-> "init", args |-> [amount |-> amount, b_rate |-> b_rate,
                                            first |-> amount],
                   err |-> "Ok", pre |-> World, written |-> World, ret |-> amount]

\* one more round trip of what the last one returned
RoundTripStep(result) ==
    /\ last' = [last EXCEPT !.op = "round_trip", !.args.amount = last.ret,
                            !.err = result.err, !.ret = result.val]
    /\ ledger' = [ledger EXCEPT !.calls = @ + 1]
    /\ UNCHANGED <<storage, cdps, balances, oracle>>
RoundTrip ==
    /\ last.op \in {"init", "round_trip"}
    /\ last.err = "Ok"
    /\ ledger.calls < MaxRoundTrips
    /\ RoundTripStep(round_trip(last.ret, last.args.b_rate))

\* the same amount converted with both roundings
ConvertBoth ==
    /\ last.op = "init"
    /\ last' = [last EXCEPT !.op = "to_b_token",
                    !.ret = [down |-> to_b_token_down(last.args.amount, last.args.b_rate),
                             up |-> to_b_token_up(last.args.amount, last.args.b_rate)]]
    /\ UNCHANGED <<storage, cdps, balances, ledger, oracle>>

NextRounding == RoundTrip \/ ConvertBoth

SpecRounding == InitRounding /\ [][NextRounding]_vars

RoundTripped == last.op = "round_trip" /\ last.err = "Ok"
InClaimedDomain == Ge(last.args.first, Zero) /\ Gt(last.args.b_rate, Zero)

\* C25: for an amount >= 0 and a b_rate > 0, to_b_token_down followed by
\* to_underlying_from_b_token returns at most the amount it was given and not
\* less than zero, and so does every repetition of the round trip on what the
\* one before returned: the result never exceeds the first amount
C25_RoundTripFavoursProtocol ==
    (RoundTripped /\ InClaimedDomain) =>
        /\ Le(last.ret, last.args.amount)
        /\ Le(last.ret, last.args.first)
        /\ Ge(last.ret, Zero)
C25_Witness ==
    /\ RoundTripped
    /\ InClaimedDomain
    /\ ledger.calls = MaxRoundTrips
    /\ Lt(last.ret, last.args.amount)
    /\ Lt(last.args.amount, last.args.first)

Converted == last.op = "to_b_token"
NeitherOverflows == last.ret.down.err = "Ok" /\ last.ret.up.err = "Ok"

\* C26: for an amount >= 0 and a rate > 0 for which both helpers return Ok,
\* to_b_token_down <= to_b_token_up <= to_b_token_down + 1; for a rate of 0
\* both return ArithmeticError
C26_DownUpWithinOne ==
    Converted =>
        /\ (InClaimedDomain /\ NeitherOverflows) =>
               /\ Le(last.ret.down.val, last.ret.up.val)
               /\ Le(last.ret.up.val, Add(last.ret.down.val, I(1)))
        /\ IsZero(last.args.b_rate) =>
               /\ last.ret.down = ArithmeticError
               /\ last.ret.up = ArithmeticError
C26_Witness ==
    /\ Converted
    /\ InClaimedDomain
    /\ NeitherOverflows
    /\ last.ret.up.val = Add(last.ret.down.val, I(1))

\* ---------------------------------------------------------------------
\* What fill_auction persists (liquidations.rs 175-270)
\* ---------------------------------------------------------------------

LotToken == FirstKey(FilledAuction.lot)
BidToken == FirstKey(FilledAuction.bid)
FilledDebtAsset == last.pre.cdps[FilledUser][1].debt_asset[1]
\* what the liquidator received and paid, and the dTokens taken from the CDP
CollateralReceived == Sub(FillerBalance(World, LotToken), FillerBalance(last.pre, LotToken))
DebtPaid == Sub(FillerBalance(last.pre, BidToken), FillerBalance(World, BidToken))
DTokensBurned == Sub(last.pre.cdps[FilledUser][1].d_tokens, cdps[FilledUser][1].d_tokens)

\* C27: after a successful fill_auction the persisted pool storage holds the
\* borrower's collateral in the lot token lower by collateral_received, the
\* borrower's dToken balance lower by the dTokens burned from the CDP, and the
\* pool balance of the debt asset higher by debt_to_pay
C27_FillPersisted ==
    Filled =>
        /\ get_collateral(storage, FilledUser, LotToken)
               = Sub(get_collateral(last.pre.storage, FilledUser, LotToken), CollateralReceived)
        /\ get_d_token_balance(storage, FilledUser, FilledDebtAsset)
               = Sub(get_d_token_balance(last.pre.storage, FilledUser, FilledDebtAsset),
                     DTokensBurned)
        /\ get_pool_balance(storage, FilledDebtAsset)
               = Add(get_pool_balance(last.pre.storage, FilledDebtAsset), DebtPaid)

\* ---------------------------------------------------------------------
\* The interest rate of an accrual (interest.rs 98-233), as a function of
\* utilization, rate modifier and parameters
\* ---------------------------------------------------------------------

\* utilizations from 0 to 100%, on both sides of target_util and max_util of
\* both parameter sets
Utilizations ==
    {Zero, I(1), I(3333333), I(4999999), I(5000000), I(5000001), I(7499999), I(7500000),
     I(7500001), I(7999999), I(8000000), I(8000001), I(9499999), I(9500000), I(9500001),
     I(9999999), SCALAR_7}
\* rate modifiers in the range [0.1, 10] that calc_accrual keeps them in
RateModifiers == {Div(SCALAR_7, I(10)), SCALAR_7, I(12345678), Mul(SCALAR_7, I(10))}
\* the default parameters and a set an admin may store in their place
ParameterSets ==
    {default_params,
     [target_util |-> I(5000000), max_util |-> I(8000000),
      r_base |-> Zero, r_one |-> I(1000000), r_two |-> I(3333333),
      r_three |-> I(20000000), reactivity |-> I(1000)]}

InitRate ==
    /\ storage = initialize(I(500000))
    /\ cdps = NoCdps
    /\ balances = NoBalances
    /\ ledger = InitLedger
    /\ oracle = NoPrices
    /\ \E params \in ParameterSets, cur_util \in Utilizations, ir_mod \in RateModifiers :
           last = [op |-> "init",
                   args |-> [params |-> params, cur_util |-> cur_util, ir_mod |-> ir_mod],
                   err |-> "Ok", pre |-> World, written |-> World, ret |-> Zero]

\* calc_accrual over one year, SECONDS_PER_YEAR seconds after last_time
CalcAccrual ==
    /\ last.op = "init"
    /\ last' = [last EXCEPT !.op = "calc_accrual",
                    !.ret = calc_accrual(last.args.params, last.args.cur_util,
                                         last.args.ir_mod, InitLedger.timestamp,
                                         InitLedger.timestamp + SECONDS_PER_YEAR)]
    /\ UNCHANGED <<storage, cdps, balances, ledger, oracle>>

NextRate == CalcAccrual

SpecRate == InitRate /\ [][NextRate]_vars

OneYearAccrued == last.op = "calc_accrual"
Target == last.args.params.target_util
MaxUtil == last.args.params.max_util
\* the three segments as the claim writes them, every division an integer
\* division
ClaimedLow ==
    Div(Mul(Add(last.args.params.r_base,
                Div(Mul(last.args.cur_util, last.args.params.r_one), Target)),
            last.args.ir_mod),
        SCALAR_7)
ClaimedMid ==
    Div(Mul(Add(Add(last.args.params.r_base, last.args.params.r_one),
                Div(Mul(Sub(last.args.cur_util, Target), last.args.params.r_two),
                    Sub(MaxUtil, Target))),
            last.args.ir_mod),
        SCALAR_7)
ClaimedHigh ==
    Add(Add(Add(last.args.params.r_base, last.args.params.r_one), last.args.params.r_two),
        Div(Mul(Sub(last.args.cur_util, MaxUtil), last.args.params.r_three),
            Sub(SCALAR_7, MaxUtil)))
ClaimedRate ==
    IF Le(last.args.cur_util, Target) THEN ClaimedLow
    ELSE IF Le(last.args.cur_util, MaxUtil) THEN ClaimedMid
    ELSE ClaimedHigh
\* the rate an accrual over one year used: accrual = SCALAR_12 + rate * 10^5
RateUsed == Div(Sub(last.ret.accrual, SCALAR_12), I(100000))

\* C28: for every utilization in [0, SCALAR_7] the rate calc_accrual uses is
\* (r_base + util * r_one / target) * ir_mod / SCALAR_7 up to target_util,
\* (r_base + r_one + (util - target) * r_two / (max - target)) * ir_mod / SCALAR_7
\* up to max_util, and r_base + r_one + r_two
\* + (util - max) * r_three / (SCALAR_7 - max) above it, without ir_mod
C28_ThreeSegments ==
    OneYearAccrued =>
        /\ last.ret.err = "Ok"
        /\ last.ret.accrual = Add(SCALAR_12, Mul(ClaimedRate, I(100000)))
        /\ RateUsed = ClaimedRate
C28_Witness ==
    /\ OneYearAccrued
    /\ Gt(last.args.cur_util, MaxUtil)
    /\ last.args.ir_mod # SCALAR_7
    /\ RateUsed = ClaimedHigh
    /\ RateUsed # Div(Mul(ClaimedHigh, last.args.ir_mod), SCALAR_7)

\* ---------------------------------------------------------------------
\* The lot of a liquidation (liquidations.rs 61-122) over liquidation
\* percents, prices and collateral factors
\* ---------------------------------------------------------------------

\* liquidation_percent is a u32: from the smallest share to u32::MAX
LotPercents == {I(1), I(2500000), I(5000000), SCALAR_7, Mul(I(2), SCALAR_7), U32_MAX}
\* collateral factors set_collateral_factor accepts, and none set
CollateralFactors == {None, Some(Zero), Some(I(2500000)), Some(I(5000000)), Some(SCALAR_7)}
RwaPrices == {Units(1), Units(50), Units(100)}
CryptoPrices == {I(9990000), Units(1), Units(2)}

InitLot ==
    /\ \E factor \in CollateralFactors :
           storage = [InitStorage EXCEPT !.collateral_factors["NVDA"] = factor]
    /\ cdps = InitCdps
    /\ balances = InitBalances
    /\ ledger = InitLedger
    /\ \E rwa_price \in RwaPrices, debt_price \in CryptoPrices :
           oracle = [rwa |-> [t \in RwaTokens |->
                                 Some([price |-> rwa_price,
                                       timestamp |-> InitLedger.timestamp])],
                     crypto |-> [a \in Assets |->
                                    Some([price |-> debt_price,
                                          timestamp |-> InitLedger.timestamp])]]
    /\ last = [op |-> "init", args |-> <<>>, err |-> "Ok",
               pre |-> World, written |-> World, ret |-> Zero]

\* the first call on the pool so set up
InitiateAnyPercent ==
    \E borrower \in Borrowers, rwa_token \in RwaTokens, debt_asset \in Assets,
       liquidation_percent \in LotPercents :
        last.op = "init" /\
        Call(initiate_liquidation(World, Env,
                 [borrower |-> borrower, rwa_token |-> rwa_token, debt_asset |-> debt_asset,
                  liquidation_percent |-> liquidation_percent]),
             "initiate_liquidation",
             [borrower |-> borrower, rwa_token |-> rwa_token, debt_asset |-> debt_asset,
              liquidation_percent |-> liquidation_percent])

NextLot == InitiateAnyPercent

SpecLot == InitLot /\ [][NextLot]_vars

LiquidationStored == Initiated /\ last.err = "Ok"
StoredLot == storage.auction_data[last.ret].lot[last.args.rwa_token]
RecordedCollateral ==
    get_collateral(last.pre.storage, last.args.borrower, last.args.rwa_token)

\* C29: the lot of the auction a successful initiate_liquidation stores is
\* at least zero and at most the borrower's recorded collateral in the token,
\* for every liquidation_percent, prices and collateral factor
C29_LotCapped ==
    LiquidationStored => Ge(StoredLot, Zero) /\ Le(StoredLot, RecordedCollateral)
C29_Witness ==
    /\ LiquidationStored
    /\ StoredLot = RecordedCollateral
    /\ Gt(last.args.liquidation_percent, SCALAR_7)
    /\ Gt(storage.auction_data[last.ret].bid["usdc_token"],
          last.pre.cdps[last.args.borrower][1].d_tokens)

\* ---------------------------------------------------------------------
\* When a BadDebt auction leaves auction_data (bad_debt.rs 130-193, 211-230)
\* ---------------------------------------------------------------------

\* the BadDebt auctions stored whose borrower owes debt
OpenBadDebt ==
    {id \in DOMAIN storage.auction_data :
        /\ storage.auction_data[id].auction_type = "BadDebt"
        /\ cdps[storage.auction_data[id].user] # None
        /\ Gt(cdps[storage.auction_data[id].user][1].d_tokens, Zero)}
OwedBy(id) == cdps[storage.auction_data[id].user][1].d_tokens
\* amounts a bidder may offer: the amounts of the calls, one unit, and the
\* debt owed at the rate of the reserve
OfferedFor(id) ==
    BadDebtAmounts \cup {I(1), OwedBy(id),
        debt_amount_of(OwedBy(id), get_d_token_rate(storage, "USDC", ledger.timestamp))}
FillNow(id, amount, wraps) == fill_bad_debt_auction(World, Env, id, Filler, amount, wraps)
\* a fill that removes the auction, or one that changes what the borrower owes
MovesOn(id, res) ==
    /\ res.err = "Ok"
    /\ \/ id \notin DOMAIN res.world.storage.auction_data
       \/ res.world.cdps[storage.auction_data[id].user][1].d_tokens # OwedBy(id)

\* C30: a successful fill_bad_debt_auction removes the auction exactly when
\* it leaves the borrower with d_tokens = 0 and keeps it stored otherwise;
\* and every stored BadDebt auction whose borrower owes debt has a fill that
\* removes it or changes the debt owed, the first step of a sequence of fills
\* that brings it to removal
C30_RemovedAtZeroDebt ==
    /\ BadDebtFilled => (~StillStored <=> IsZero(DebtLeft))
    /\ \A id \in OpenBadDebt :
           \E amount \in OfferedFor(id), wraps \in BOOLEAN :
               MovesOn(id, FillNow(id, amount, wraps))

\* ---- the lot of an Interest auction over its fills ----

\* the lot of the auction as the call found it and the interest the call paid
LotBefore == OnlyAmount(FilledAuction.lot)
InterestPaid == last.ret.interest_to_receive
\* what the bidder's balance of the reserve's token grew by
InterestReceived ==
    Sub(FillerBalance(World, FirstKey(FilledAuction.lot)),
        FillerBalance(last.pre, FirstKey(FilledAuction.lot)))
\* what the bidder paid in that same token, when the admin made the reserve's
\* token the backstop token too
BackstopPaidInLotToken ==
    IF last.pre.storage.backstop_token = Some(FirstKey(FilledAuction.lot))
       /\ Gt(last.ret.backstop_to_pay, Zero)
    THEN last.ret.backstop_to_pay
    ELSE Zero
LotReducedTo(remaining) ==
    /\ StillStored
    /\ storage.auction_data[last.args.auction_id] =
           [FilledAuction EXCEPT !.lot = MapSet(@, FirstKey(@), remaining)]

\* C31: a successful fill_interest_auction pays out between 0 and the lot it
\* found, the bidder's balance of the lot's token grows by exactly that (less
\* the backstop payment where that is made in the same token); when less than
\* the lot was paid
\* the auction stays stored with its lot reduced by exactly the interest paid
\* and nothing else of it changed, and when the whole lot was paid the
\* auction is removed; so the lot never goes below zero and the interest paid
\* out of one auction over its fills is at most the lot it was created with
C31_LotReducedByInterestPaid ==
    InterestFilled =>
        /\ Le(Zero, InterestPaid) /\ Le(InterestPaid, LotBefore)
        /\ InterestReceived = Sub(InterestPaid, BackstopPaidInLotToken)
        /\ IF Lt(InterestPaid, LotBefore)
           THEN LotReducedTo(Sub(LotBefore, InterestPaid))
           ELSE ~StillStored

\* a partial fill that paid interest and left the auction stored
C31_Witness ==
    /\ InterestFilled
    /\ Gt(InterestPaid, Zero) /\ Lt(InterestPaid, LotBefore)
    /\ LotReducedTo(Sub(LotBefore, InterestPaid))

\* ---- fills of an auction of another kind ----

\* the auction type each fill function accepts
KindFilled(op) ==
    CASE op = "fill_auction" -> "UserLiquidation"
      [] op = "fill_bad_debt_auction" -> "BadDebt"
      [] op = "fill_interest_auction" -> "Interest"
\* the call named a stored auction of a kind its function does not fill
OtherKindNamed ==
    /\ FillCalled
    /\ ~NotStored
    /\ FilledAuction.auction_type # KindFilled(last.op)

\* C32 as stated: every fill call with the id of a stored auction of another
\* kind fails with AuctionNotActive and changes no state
C32_Original == OtherKindNamed => Refused("AuctionNotActive")

\* C32: a fill call with the id of a stored auction of another kind changes
\* no state (auctions, CDPs, reserve, backstop_total and token balances are as
\* before and nothing was written); fill_auction and fill_bad_debt_auction
\* fail with AuctionNotActive, and so does fill_interest_auction when its
\* fill_percent is in (0, SCALAR_7]; with a fill_percent outside that range
\* fill_interest_auction fails with InvalidFillPercent, which it tests first
C32_OwnKindOnly ==
    OtherKindNamed =>
        IF last.op = "fill_interest_auction" /\ ~ValidFillPercent
        THEN Refused("InvalidFillPercent")
        ELSE Refused("AuctionNotActive")

\* fill_bad_debt_auction named a UserLiquidation auction and was refused
C32_Witness ==
    /\ OtherKindNamed
    /\ last.op = "fill_bad_debt_auction"
    /\ FilledAuction.auction_type = "UserLiquidation"
    /\ Refused("AuctionNotActive")

\* ---- the debt leg of a UserLiquidation auction ----

\* the bid of the auction a successful initiate_liquidation stored
StoredBid == OnlyAmount(storage.auction_data[last.ret].bid)
\* what the borrower owed when the call ran: d_tokens * d_rate / SCALAR_12
DebtAtInitiation ==
    Div(Mul(last.pre.cdps[last.args.borrower][1].d_tokens,
            get_d_token_rate(last.pre.storage, last.args.debt_asset, ledger.timestamp)),
        SCALAR_12)

\* C33: the bid of the auction a successful initiate_liquidation stores is at
\* most the borrower's debt amount d_tokens * d_rate / SCALAR_12 at the call,
\* for every liquidation_percent
C33_BidWithinDebt == LiquidationStored => Le(StoredBid, DebtAtInitiation)

\* ---- the borrower's debt over a fill ----

\* the d_tokens of the auction's borrower as the call found them
DebtBefore == last.pre.cdps[FilledUser][1].d_tokens

\* C34: after a successful fill_auction or fill_bad_debt_auction the d_tokens
\* of the auction's borrower are at most what they were before the call and
\* at least zero, for every amount passed to fill_bad_debt_auction
C34_FillNeverRaisesDebt ==
    ((Filled \/ BadDebtFilled) /\ last.pre.cdps[FilledUser] # None) =>
        /\ cdps[FilledUser] # None
        /\ Le(DebtLeft, DebtBefore)
        /\ Ge(DebtLeft, Zero)

\* ---------------------------------------------------------------------
\* Repeated liquidations of one position (liquidations.rs 15-165, 168-282)
\* ---------------------------------------------------------------------
MaxLiquidationCalls == 4
MaxWindows == 2

\* the borrower whose position is under water and the collateral token
Liquidated == "alice"
\* one and two liquidation windows, prices still fresh
WindowSteps == {[seq |-> 200, dt |-> 800], [seq |-> 400, dt |-> 1600]}

CloseWindow ==
    \E step \in WindowSteps :
        /\ AfterCommit
        /\ ledger.closed < MaxWindows
        /\ ledger' = [ledger EXCEPT !.timestamp = @ + step.dt,
                                     !.sequence = @ + step.seq,
                                     !.closed = @ + 1]
        /\ last' = [op |-> "ledger", args |-> step, err |-> "Ok",
                    pre |-> World, written |-> World, ret |-> Zero]
        /\ UNCHANGED <<storage, cdps, balances, oracle>>

\* a call of the contract among at most MaxLiquidationCalls that succeed
LiquidationCall(res, op, args) ==
    /\ AfterCommit
    /\ ledger.calls < MaxLiquidationCalls \/ Failed(res)
    /\ HostCommit(res, op, args)
    /\ ledger' = [ledger EXCEPT !.calls = IF Failed(res) THEN @ ELSE @ + 1]
    /\ UNCHANGED oracle

InitiateOnPosition ==
    \E rwa_token \in RwaTokens, debt_asset \in Assets,
       liquidation_percent \in LiquidationPercents :
        LiquidationCall(
            initiate_liquidation(World, Env,
                [borrower |-> Liquidated, rwa_token |-> rwa_token, debt_asset |-> debt_asset,
                 liquidation_percent |-> liquidation_percent]),
            "initiate_liquidation",
            [borrower |-> Liquidated, rwa_token |-> rwa_token, debt_asset |-> debt_asset,
             liquidation_percent |-> liquidation_percent])

FillOpenAuction ==
    \E auction_id \in DOMAIN storage.auction_data, wraps \in BOOLEAN :
        LiquidationCall(fill_auction(World, Env, auction_id, Filler, wraps),
                        "fill_auction", [auction_id |-> auction_id, liquidator |-> Filler])

NextLiquidations ==
    \/ CloseWindow
    \/ InitiateOnPosition
    \/ FillOpenAuction

SpecLiquidations == Init /\ [][NextLiquidations]_vars

\* the collateral liquidators received since the pool was set up, and the
\* collateral the position had recorded then
CollateralOut(token) ==
    Sub(FillerBalance(World, token), InitBalances[token][Filler])
CollateralRecorded(token) == get_collateral(InitStorage, Liquidated, token)

\* C35: over every sequence of initiate_liquidation and fill_auction calls on
\* one position the collateral transferred to liquidators in a token is at
\* most the collateral the position had recorded in it, and the recorded
\* collateral is never negative
C35_CollateralOutBounded ==
    \A token \in RwaTokens :
        /\ Le(CollateralOut(token), CollateralRecorded(token))
        /\ Ge(get_collateral(storage, Liquidated, token), Zero)

\* ---------------------------------------------------------------------
\* The Interest auctions stored against the backstop credit
\* (interest_auction.rs 31-77, 159-188)
\* ---------------------------------------------------------------------

\* the lots in a token of the Interest auctions with these ids, summed
RECURSIVE InterestLots(_, _, _)
InterestLots(auctions, ids, token) ==
    IF ids = {} THEN Zero
    ELSE LET id == CHOOSE i \in ids : TRUE
         IN Add(IF auctions[id].auction_type = "Interest"
                THEN unwrap_or(MapGet(auctions[id].lot, token), Zero)
                ELSE Zero,
                InterestLots(auctions, ids \ {id}, token))

\* the interest on offer for an asset and the credit the reserve holds
InterestOnOffer(asset) ==
    InterestLots(storage.auction_data, DOMAIN storage.auction_data,
                 get_token_contract(storage, asset)[1])
StoredCredit(asset) == get_reserve_data(storage, asset, ledger.timestamp).backstop_credit

\* C36: in every state the lots of the stored Interest auctions of an asset
\* sum to at most the backstop_credit of the asset's reserve
C36_LotsWithinCredit ==
    \A asset \in Assets : Le(InterestOnOffer(asset), StoredCredit(asset))

\* ---------------------------------------------------------------------
\* backstop_total from a pool just initialized
\* (admin/mod.rs 45-51, bad_debt.rs 136-181, interest_auction.rs 150-157)
\* ---------------------------------------------------------------------

\* the pool with positions open and the backstop as initialize left it
InitBackstop ==
    /\ storage = [InitStorage EXCEPT !.backstop_total = Zero]
    /\ cdps = InitCdps
    /\ balances = InitBalances
    /\ ledger = InitLedger
    /\ oracle = InitPrices
    /\ last = [op |-> "init", args |-> <<>>, err |-> "Ok",
               pre |-> World, written |-> World, ret |-> Zero]

NextBackstop ==
    \/ AfterCommit /\ AdvanceAuctionLedger
    \/ CreateBadDebtAuction
    \/ FillBadDebtAuction
    \/ CreateInterestAuction
    \/ FillInterestAuction

SpecBackstop == InitBackstop /\ [][NextBackstop]_vars

\* C37: backstop_total is at least zero in every state reached from a
\* backstop_total of 0 by fill_bad_debt_auction and fill_interest_auction
\* calls with any amount at any block
C37_BackstopNeverNegative == Ge(storage.backstop_total, Zero)

\* ---- the reserve's d_supply over a fill ----

\* the d_supply of the reserve the borrower's debt is in
SupplyOf(w) == get_reserve_data(w.storage, FilledDebtAsset, ledger.timestamp).d_supply
\* a fill succeeded on a borrower who owed debt
DebtFilled ==
    /\ Filled \/ BadDebtFilled
    /\ last.pre.cdps[FilledUser] # None
    /\ last.pre.cdps[FilledUser][1].debt_asset # None

\* C38: a successful fill_auction or fill_bad_debt_auction lowers the d_supply
\* of the debt asset's reserve by the dTokens it burned from the CDP
C38_SupplyFollowsBurn ==
    DebtFilled => SupplyOf(World) = Sub(SupplyOf(last.pre), DTokensBurned)

\* ---------------------------------------------------------------------
\* A fill that would clear the debt (liquidations.rs 243-266, 331-375)
\* ---------------------------------------------------------------------

\* fill_auction ran on a borrower with debt and wrote a CDP with no d_tokens
\* left before it returned
BurnedToZero ==
    /\ last.op = "fill_auction"
    /\ ~NotStored
    /\ FilledAuction.auction_type = "UserLiquidation"
    /\ last.pre.cdps[FilledUser] # None
    /\ Gt(DebtBefore, Zero)
    /\ last.written.cdps[FilledUser] # None
    /\ IsZero(last.written.cdps[FilledUser][1].d_tokens)

\* C39 as stated: a successful fill_auction leaves the borrower with debt, and
\* a fill whose burn brings the d_tokens to 0 fails with HealthFactorTooHigh
C39_Original ==
    /\ Filled => Gt(DebtLeft, Zero)
    /\ BurnedToZero => last.err = "HealthFactorTooHigh"

\* C39: a successful fill_auction leaves the borrower with d_tokens above zero
\* and a debt asset; a fill whose burn brings the d_tokens to 0 fails and
\* changes no state: with HealthFactorTooHigh when the prices of the collateral
\* the borrower still holds are valid, and with the oracle's error
\* (OraclePriceFetchFailed, InvalidOraclePrice) when one of them is missing,
\* non-positive or older than 24 hours, because the health factor prices the
\* collateral before it looks at the debt
C39_NeverDebtFree ==
    /\ Filled => (Gt(DebtLeft, Zero) /\ IsSome(cdps[FilledUser][1].debt_asset))
    /\ BurnedToZero =>
           /\ World = last.pre
           /\ IF RwaFaults(last.written, FilledUser) = {}
              THEN last.err = "HealthFactorTooHigh"
              ELSE last.err \in RwaFaults(last.written, FilledUser)

\* a fill of the whole debt was refused for the health factor it would leave
C39_Witness ==
    /\ BurnedToZero
    /\ last.err = "HealthFactorTooHigh"
    /\ World = last.pre
    /\ Gt(DebtLeft, Zero)

\* ---------------------------------------------------------------------
\* The rate as a function of utilization (interest.rs 118-188)
\* ---------------------------------------------------------------------

\* the rate an accrual over one year uses at a utilization, with the
\* parameters and the rate modifier of the call
RateAt(cur_util) ==
    Div(Sub(calc_accrual(last.args.params, cur_util, last.args.ir_mod, InitLedger.timestamp,
                         InitLedger.timestamp + SECONDS_PER_YEAR).accrual,
            SCALAR_12),
        I(100000))
\* a utilization below the call's at which the rate is above the call's
RateDropsFrom(lower) == Lt(lower, last.args.cur_util) /\ Gt(RateAt(lower), RateUsed)

\* C40: with the parameters and the rate modifier fixed, the rate calc_accrual
\* uses at a utilization is at least the rate it uses at every lower
\* utilization of [0, SCALAR_7], across target_util and max_util too
C40_RateNonDecreasing ==
    OneYearAccrued => \A lower \in Utilizations : ~RateDropsFrom(lower)
====
